---- MODULE Spec2Model ----
(***************************************************************************)
(* Incremental sync engine of maybe-fin-simplefin-sync: one sync pass is   *)
(* main (src/main.go): LoadState, FetchSimpleFINData (src/simplefin.go),   *)
(* then the dispatch loop over the fetched accounts and transactions.      *)
(*                                                                         *)
(* The process is single threaded.  One action is one step of the program  *)
(* between two external effects (an HTTP call, a file write), so that a    *)
(* crash or a fatal exit can fall between any two of them.  The            *)
(* environment is the aggregation API (upstream), the ledger, the clock    *)
(* and the three persisted files.  File writes complete unless a crash     *)
(* cuts them: os.WriteFile truncates the file and then writes, so a crash  *)
(* inside it leaves a file that no longer parses.                          *)
(***************************************************************************)
EXTENDS Integers, Sequences, FiniteSets, TLC

\* ------------------------------------------------------------------ bounds

\* Passes (process runs) explored.
MaxPasses == 3

\* Upstream transactions that exist in the explored world.
MaxTx == 4

\* Disturbances in one explored run: a failed call, an undecodable page, a
\* crash, a second passing between two clock reads of one pass, or a step
\* back of the wall clock between two passes.
MaxFaults == 2

\* --------------------------------------------------------------- constants

\* simplefin.go:17  maxRangeSeconds = 90 * 24 * 60 * 60
maxRangeSeconds == 90 * 24 * 60 * 60

Day == 24 * 60 * 60

\* Days since 1970-01-01 of a civil date (proleptic Gregorian, UTC); a day
\* past the end of the month runs into the next month, as time.Date does.
DaysFromCivil(y, m, d) ==
    LET yy  == IF m <= 2 THEN y - 1 ELSE y
        era == yy \div 400
        yoe == yy - era * 400
        mp  == IF m > 2 THEN m - 3 ELSE m + 9
        doy == (153 * mp + 2) \div 5 + d - 1
        doe == yoe * 365 + yoe \div 4 - yoe \div 100 + doy
    IN  era * 146097 + doe - 719468

\* The civil date <<year, month, day>> of a day number.
CivilFromDays(z) ==
    LET zz  == z + 719468
        era == zz \div 146097
        doe == zz - era * 146097
        yoe == (doe - doe \div 1460 + doe \div 36524 - doe \div 146096) \div 365
        doy == doe - (365 * yoe + yoe \div 4 - yoe \div 100)
        mp  == (5 * doy + 2) \div 153
        d   == doy - (153 * mp + 2) \div 5 + 1
        m   == IF mp < 10 THEN mp + 3 ELSE mp - 9
        y   == yoe + era * 400 + (IF m <= 2 THEN 1 ELSE 0)
    IN  <<y, m, d>>

\* time.Unix(t, 0).AddDate(years, 0, 0).Unix(), the location being UTC.
AddYears(t, years) ==
    LET c == CivilFromDays(t \div Day)
    IN  DaysFromCivil(c[1] + years, c[2], c[3]) * Day + (t % Day)

\* The clock when the first pass starts: 2023-12-15T00:00:00Z.  One year
\* back from it is 365 days; one year back from 90 days later is 366 days.
Base == DaysFromCivil(2023, 12, 15) * Day

\* The change of time.Now() between the end of a pass and the next start:
\* none, more than one page, or a step back of the wall clock by a day.
PassGaps == {0, maxRangeSeconds + 1, 0 - Day}

\* The accounts, in the order the balances-only response lists them.
AccountOrder == <<"A", "C", "B">>

Accounts == {AccountOrder[k] : k \in 1..Len(AccountOrder)}

\* config.AccountMap: source account id -> AccountConfig.
AccountMap ==
    [a \in {"A", "B", "C"} |->
        [SureID |-> a, BalanceOnly |-> (a = "C")]]

\* Upstream transactions: the account and the occurred-at of each id.
TxIds == 1..MaxTx

TxAccount(t) ==
    IF t = 4 THEN "C" ELSE IF t % 3 = 0 THEN "B" ELSE "A"

TxOffsetDays(t) ==
    CASE t = 1 -> -190
      [] t = 2 -> -200
      [] t = 3 -> -10
      [] t = 4 -> -30
      [] OTHER -> 80 + t

TransactedAt(t) == Base + TxOffsetDays(t) * Day

\* SFTransaction.Description, as a sequence of words; one transaction has an
\* empty description.
Description(t) == IF t = 2 THEN <<>> ELSE <<"purchase">>

\* SFTransaction.Amount, the decimal string of the aggregation API.
Amount(t) == IF t % 2 = 0 THEN "-12.50" ELSE "100.00"

\* The balance the aggregation API reports for each account.
UpstreamBalances ==
    [a \in Accounts |-> IF a = "A" THEN "10.00"
                        ELSE IF a = "B" THEN "20.00" ELSE "30.00"]

\* ------------------------------------------------------------------- state

VARIABLES
    \* environment
    clock,            \* time.Now().Unix()
    upstream,         \* transaction ids the aggregation API reports
    ledger,           \* id -> successful create-transaction calls for it
    \* persisted files
    stateFile,        \* sync_state.json
    syncFile,         \* account_sync_state.json
    cacheFiles,       \* tmp/account_<id>.json
    \* the running process
    pc,
    state,            \* main: state, the in-memory ProcessedSet
    accountSyncState, \* FetchSimpleFINData: accountSyncState
    sfResp,           \* account -> account.Transactions
    balances,         \* account -> account.Balance
    i,                \* FetchSimpleFINData: index of the account loop
    totalStartDate,
    totalEndDate,
    currentStartDate,
    ai,               \* main: index of the dispatch account loop
    ti,               \* main: index of the dispatch transaction loop
    \* what has been observed, for the properties
    pass,             \* passes started
    lastExit,         \* how the last pass ended: none, done, fatal, crash
    windows,          \* sub-windows requested for the current account
    calls,            \* id -> create-transaction calls invoked for it
    attemptedNow,     \* ids whose delivery was invoked in this pass
    failedNow,        \* ids whose delivery failed in this pass
    failedLast,       \* failedNow of the pass before, when it completed
    acked,            \* ids loaded at pass start or delivered in this pass
    quietRerun,       \* this pass follows a completed pass, upstream unchanged
    changed,          \* upstream changed since this pass started
    crashInFlight,    \* a crash fell between a delivery and its persistence
    faults,           \* faults so far
    diskAtStart,      \* the three stores as they were when the pass started
    failedFetch,      \* the fetch whose failure ended the pass: none,
                      \* balances, or the account of the failed page
    finished,         \* <<account, cursor>> of the accounts the fetch loop
                      \* of this pass has completed, in order
    incomplete,       \* accounts whose paging loop was left by break
    \* what the process was started with and what upstream attaches
    forceRefresh,     \* the -force-refresh flag of the installation's command
    accountMap,       \* config.AccountMap as config.json holds it
    upstreamErrors,   \* the errors list upstream attaches to its responses
    \* what the pass has printed and sent
    warnings,         \* the upstream errors printed in this pass
    callLog,          \* the create-transaction payloads sent in this pass
    \* the cache-based fetch (fetchSimpleFINData with the 24h TTL)
    fi,               \* index of the cache file loop
    allAccounts,      \* allAccounts: the cached accounts taken
    cachedMap,        \* cachedMap: account id -> FetchedAt of the snapshot
    needsPull,        \* needsPull
    pulled,           \* the upstream API was called
    \* the installation and what the pass did about it
    configFile,       \* config.json: access_url, setup_token, account_map
    autoCreate,       \* the -auto-create-accounts flag
    inclusiveEnd,     \* upstream takes end-date as the last instant included
    claimCalls,       \* claim exchanges attempted so far
    created,          \* <<account, outcome>> of the account creations of this pass
    delivered         \* ids of the successful deliveries of this pass, in order

envVars  == <<clock, upstream, ledger>>
diskVars == <<stateFile, syncFile, cacheFiles>>
procVars == <<pc, state, accountSyncState, sfResp, balances, i, totalStartDate,
              totalEndDate, currentStartDate, ai, ti>>
histVars == <<pass, lastExit, windows, calls, attemptedNow,
              failedNow, failedLast, acked, quietRerun, changed,
              crashInFlight, faults>>
auditVars == <<diskAtStart, failedFetch, finished, incomplete>>
inputVars == <<forceRefresh, accountMap, upstreamErrors>>
logVars   == <<warnings, callLog>>
cacheVars == <<fi, allAccounts, cachedMap, needsPull, pulled>>
setupVars == <<configFile, autoCreate, inclusiveEnd, claimCalls, created,
               delivered>>
vars == <<envVars, diskVars, procVars, histVars, auditVars,
          inputVars, logVars, cacheVars, setupVars>>

\* ------------------------------------------------------------------- files

Missing == [st |-> "missing", data |-> <<>>]

\* A file cut short by a crash inside os.WriteFile: it exists, it does not parse.
Malformed == [st |-> "bad", data |-> <<>>]

Written(m) == [st |-> "ok", data |-> m]

EmptyMap == <<>>

\* Go: m[k] = v
MapPut(m, k, v) ==
    [x \in DOMAIN m \cup {k} |-> IF x = k THEN v ELSE m[x]]

\* json.MarshalIndent of a map as if only one of its entries were written.
MarshalOneMember(m) ==
    IF DOMAIN m = {} THEN {}
    ELSE LET k == CHOOSE k \in DOMAIN m : TRUE IN {<<k, m[k]>>}

\* sync.go:31, 51  json.MarshalIndent of a map: a JSON object, one member
\* for each key of the map.
Marshal(m) == {<<k, m[k]>> : k \in DOMAIN m}

\* sync.go:24, 44  json.Unmarshal of an object into a map just made: each
\* member becomes an entry.
Unmarshal(members) ==
    [k \in {p[1] : p \in members} |->
        (CHOOSE p \in members : p[1] = k)[2]]

\* sync.go LoadState: an unreadable file or one that does not parse leaves
\* the map made before the read, empty.
LoadState(f) == IF f.st = "ok" THEN Unmarshal(f.data) ELSE EmptyMap

\* sync.go LoadAccountSyncState
LoadAccountSyncState(f) == IF f.st = "ok" THEN Unmarshal(f.data) ELSE EmptyMap

\* sync.go SaveState: the whole map replaces the file.
SaveState(m) == Written(Marshal(m))

\* sync.go SaveAccountSyncState
SaveAccountSyncState(m) == Written(Marshal(m))

\* config.json of an installation whose access URL is claimed.
ConfigOf(map) ==
    [AccessURL |-> "https://bridge", SetupToken |-> "", AccountMap |-> map]

\* ------------------------------------------------------------ fetch helpers

\* simplefin.go:211  exists && state.LastSyncDate != 0
HasCursor(accountID, syncState) ==
    /\ accountID \in DOMAIN syncState
    /\ syncState[accountID].LastSyncDate # 0

\* getTransactionDateRange as if the stored cursor were not consulted.
RangeIgnoringCursor(accountID, syncState, now1, now2) ==
    <<AddYears(now2, -1), now1>>

\* getTransactionDateRange as if one year back were 365 days back.
RangeOf365Days(accountID, syncState, now1, now2) ==
    IF HasCursor(accountID, syncState)
    THEN <<syncState[accountID].LastSyncDate, now1>>
    ELSE <<now2 - 365 * Day, now1>>

\* getTransactionDateRange as if one year back were 360 days back.
RangeOf360Days(accountID, syncState, now1, now2) ==
    IF HasCursor(accountID, syncState)
    THEN <<syncState[accountID].LastSyncDate, now1>>
    ELSE <<now2 - 360 * Day, now1>>

\* simplefin.go getTransactionDateRange: <<start, end>>.  now1 is the clock
\* read of line 208 and now2 the one of line 217.
getTransactionDateRange(accountID, syncState, now1, now2) ==
    IF HasCursor(accountID, syncState)
    THEN <<syncState[accountID].LastSyncDate, now1>>
    ELSE <<AddYears(now2, -1), now1>>

\* The end of the sub-window as if the whole range were asked for in one
\* request, with no limit of maxRangeSeconds on its length.
UncappedEndDate(start, totalEnd) == totalEnd

\* The end of the sub-window as if the step were half the allowed range.
HalfStepEndDate(start, totalEnd) ==
    IF start + maxRangeSeconds \div 2 > totalEnd THEN totalEnd
    ELSE start + maxRangeSeconds \div 2

\* The end of the sub-window as if nothing were added to its start.
StalledEndDate(start, totalEnd) == start

\* simplefin.go:128-131  the end of the sub-window that starts at start
CurrentEndDate(start, totalEnd) ==
    IF start + maxRangeSeconds > totalEnd THEN totalEnd
    ELSE start + maxRangeSeconds

\* The order in which the aggregation API lists transactions: the order of
\* their ids, which is not the order of their dates (the protocol promises
\* no order).
RECURSIVE Listed(_)
Listed(S) ==
    IF S = {} THEN <<>>
    ELSE LET t == CHOOSE x \in S : \A y \in S : x <= y
         IN  <<t>> \o Listed(S \ {t})

\* The aggregation API's answer to account=<id>&start-date=s&end-date=e:
\* the account's transactions with s <= transacted_at < e, and those at e
\* too when upstream includes the end instant.
UpstreamPage(a, s, e) ==
    Listed({t \in upstream :
        /\ TxAccount(t) = a
        /\ s <= TransactedAt(t)
        /\ \/ TransactedAt(t) < e
           \/ inclusiveEnd /\ TransactedAt(t) = e})

NoAccounts == [a \in Accounts |-> <<>>]

CurrentAccount == AccountOrder[i]

\* The balance_only flag as if it were never set.
NeverBalanceOnly(a) == FALSE

\* simplefin.go:114  mapped && accConfig.BalanceOnly
BalanceOnly(a) == a \in DOMAIN accountMap /\ accountMap[a].BalanceOnly


\* ---------------------------------------------------------------- initially

\* A fresh installation: no file has been written, nothing was delivered.
Init ==
    /\ clock = Base
    /\ upstream = {}
    /\ ledger = [t \in TxIds |-> 0]
    /\ stateFile = Missing
    /\ syncFile = Missing
    /\ cacheFiles = [a \in Accounts |-> Missing]
    /\ pc = "idle"
    /\ state = EmptyMap
    /\ accountSyncState = EmptyMap
    /\ sfResp = NoAccounts
    /\ balances = EmptyMap
    /\ i = 0
    /\ totalStartDate = 0
    /\ totalEndDate = 0
    /\ currentStartDate = 0
    /\ ai = 0
    /\ ti = 0
    /\ pass = 0
    /\ lastExit = "none"
    /\ windows = <<>>
    /\ calls = [t \in TxIds |-> 0]
    /\ attemptedNow = {}
    /\ failedNow = {}
    /\ failedLast = {}
    /\ acked = {}
    /\ quietRerun = FALSE
    /\ changed = FALSE
    /\ crashInFlight = FALSE
    /\ faults = 0
    /\ diskAtStart = <<Missing, Missing, [a \in Accounts |-> Missing]>>
    /\ failedFetch = "none"
    /\ finished = <<>>
    /\ incomplete = {}
    /\ forceRefresh = FALSE
    /\ accountMap = AccountMap
    /\ upstreamErrors = <<>>
    /\ warnings = <<>>
    /\ callLog = <<>>
    /\ fi = 0
    /\ allAccounts = <<>>
    /\ cachedMap = EmptyMap
    /\ needsPull = FALSE
    /\ pulled = FALSE
    /\ configFile = ConfigOf(AccountMap)
    /\ autoCreate = FALSE
    /\ inclusiveEnd = FALSE
    /\ claimCalls = 0
    /\ created = <<>>
    /\ delivered = <<>>

\* The process is gone (os.Exit, return from main, or a kill): its memory
\* is lost, the files and the environment stay.
Exit(how) ==
    /\ pc' = "idle"
    /\ state' = EmptyMap
    /\ accountSyncState' = EmptyMap
    /\ sfResp' = NoAccounts
    /\ balances' = EmptyMap
    /\ i' = 0
    /\ totalStartDate' = 0
    /\ totalEndDate' = 0
    /\ currentStartDate' = 0
    /\ ai' = 0
    /\ ti' = 0
    /\ windows' = <<>>
    /\ lastExit' = how

\* log.Fatalf: the process exits at once, nothing more is written.
Fatal ==
    /\ faults < MaxFaults
    /\ faults' = faults + 1
    /\ Exit("fatal")
    /\ UNCHANGED <<envVars, diskVars>>
    /\ UNCHANGED <<pass, calls, attemptedNow, failedNow,
                   failedLast, acked, quietRerun, changed, crashInFlight>>
    /\ UNCHANGED <<diskAtStart, finished, incomplete>>
    /\ UNCHANGED <<inputVars, logVars, cacheVars>>
    /\ UNCHANGED setupVars

\* ------------------------------------------------------------- environment

\* The aggregation API starts to report a transaction; it reports only
\* transactions that have occurred.  A report that arrives while a pass runs
\* is seen by the pass like one before it (its window is yet to be
\* requested) or like one after it (its window was requested), so the
\* reports are placed between the passes.
UpstreamPost(t) ==
    /\ pc = "idle"
    /\ pass < MaxPasses            \* a report no pass will see changes nothing
    /\ t \notin upstream
    /\ TransactedAt(t) < clock
    /\ upstream' = upstream \cup {t}
    /\ changed' = TRUE
    /\ quietRerun' = FALSE
    /\ UNCHANGED <<clock, ledger, diskVars, procVars>>
    /\ UNCHANGED <<pass, lastExit, windows, calls, attemptedNow,
                   failedNow, failedLast, acked, crashInFlight, faults>>
    /\ UNCHANGED auditVars
    /\ UNCHANGED <<inputVars, logVars, cacheVars>>
    /\ UNCHANGED setupVars

\* ------------------------------------------------------- main, before fetch

\* The start of a pass as if a missing sync_state.json were a fatal error.
StartPassMissingFatal(gap) ==
    /\ pc = "idle"
    /\ pass < MaxPasses
    /\ configFile.AccessURL # ""
    /\ pass = 0 => gap = 0
    /\ gap < 0 => faults < MaxFaults
    /\ faults' = faults + (IF gap < 0 THEN 1 ELSE 0)
    /\ pass' = pass + 1
    /\ clock' = clock + gap
    /\ IF stateFile.st = "missing"
       THEN Exit("fatal")
       ELSE /\ state' = LoadState(stateFile)
            /\ pc' = "balances"
            /\ UNCHANGED <<accountSyncState, sfResp, balances, i,
                           totalStartDate, totalEndDate, currentStartDate,
                           ai, ti, lastExit, windows>>
    /\ attemptedNow' = {}
    /\ failedNow' = {}
    /\ failedLast' = IF lastExit = "done" THEN failedNow ELSE {}
    /\ acked' = DOMAIN LoadState(stateFile)
    /\ quietRerun' = (lastExit = "done" /\ ~changed)
    /\ changed' = FALSE
    /\ UNCHANGED <<upstream, ledger, diskVars>>
    /\ UNCHANGED <<calls, crashInFlight>>
    /\ diskAtStart' = <<stateFile, syncFile, cacheFiles>>
    /\ failedFetch' = "none"
    /\ finished' = <<>>
    /\ incomplete' = {}
    /\ warnings' = <<>>
    /\ callLog' = <<>>
    /\ accountMap' = configFile.AccountMap
    /\ created' = <<>>
    /\ delivered' = <<>>
    /\ UNCHANGED <<forceRefresh, upstreamErrors, cacheVars>>
    /\ UNCHANGED <<configFile, autoCreate, inclusiveEnd, claimCalls>>

\* main.go:88-116: the process starts gap seconds after the last one ended
\* (the first one when the clock reads Base) and loads the ProcessedSet.
StartPass(gap) ==
    /\ pc = "idle"
    /\ pass < MaxPasses
    /\ configFile.AccessURL # ""
    /\ pass = 0 => gap = 0
    /\ gap < 0 => faults < MaxFaults
    /\ faults' = faults + (IF gap < 0 THEN 1 ELSE 0)
    /\ pass' = pass + 1
    /\ clock' = clock + gap
    /\ state' = LoadState(stateFile)
    /\ pc' = "balances"
    /\ attemptedNow' = {}
    /\ failedNow' = {}
    /\ failedLast' = IF lastExit = "done" THEN failedNow ELSE {}
    /\ acked' = DOMAIN LoadState(stateFile)
    /\ quietRerun' = (lastExit = "done" /\ ~changed)
    /\ changed' = FALSE
    /\ UNCHANGED <<upstream, ledger, diskVars>>
    /\ UNCHANGED <<accountSyncState, sfResp, balances, i, totalStartDate, totalEndDate,
                   currentStartDate, ai, ti>>
    /\ UNCHANGED <<lastExit, windows, calls, crashInFlight>>
    /\ diskAtStart' = <<stateFile, syncFile, cacheFiles>>
    /\ failedFetch' = "none"
    /\ finished' = <<>>
    /\ incomplete' = {}
    /\ warnings' = <<>>
    /\ callLog' = <<>>
    /\ accountMap' = configFile.AccountMap
    /\ created' = <<>>
    /\ delivered' = <<>>
    /\ UNCHANGED <<forceRefresh, upstreamErrors, cacheVars>>
    /\ UNCHANGED <<configFile, autoCreate, inclusiveEnd, claimCalls>>

\* ------------------------------------------------------ FetchSimpleFINData

\* simplefin.go:86-106: load the cursors, fetch the balances of all accounts.
FetchBalances ==
    /\ pc = "balances"
    /\ accountSyncState' = LoadAccountSyncState(syncFile)
    /\ sfResp' = NoAccounts
    /\ balances' = UpstreamBalances
    /\ i' = 1
    /\ pc' = "account"
    /\ UNCHANGED <<envVars, diskVars, histVars, auditVars>>
    /\ UNCHANGED <<state, totalStartDate, totalEndDate, currentStartDate,
                   ai, ti>>
    /\ warnings' = warnings \o upstreamErrors
    /\ UNCHANGED callLog
    /\ UNCHANGED <<inputVars, cacheVars>>
    /\ UNCHANGED setupVars

\* A failed balances call as if it were logged and the fetch went on with
\* the accounts it has.
FetchBalancesFailContinues ==
    /\ pc = "balances"
    /\ failedFetch' = "balances"
    /\ faults < MaxFaults
    /\ faults' = faults + 1
    /\ accountSyncState' = LoadAccountSyncState(syncFile)
    /\ sfResp' = NoAccounts
    /\ balances' = EmptyMap
    /\ i' = 1
    /\ pc' = "account"
    /\ UNCHANGED <<envVars, diskVars>>
    /\ UNCHANGED <<state, totalStartDate, totalEndDate, currentStartDate,
                   ai, ti>>
    /\ UNCHANGED <<pass, lastExit, windows, calls, attemptedNow, failedNow,
                   failedLast, acked, quietRerun, changed, crashInFlight>>
    /\ UNCHANGED <<diskAtStart, finished, incomplete>>
    /\ UNCHANGED <<inputVars, logVars, cacheVars>>
    /\ UNCHANGED setupVars

\* simplefin.go:92-101: the balances call fails or does not decode.
FetchBalancesFail ==
    /\ pc = "balances"
    /\ failedFetch' = "balances"
    /\ Fatal

\* The skip of a balance-only account as if it recorded a cursor for it.
AccountSkipAdvances ==
    /\ pc = "account"
    /\ i <= Len(AccountOrder)
    /\ BalanceOnly(CurrentAccount)
    /\ accountSyncState' = MapPut(accountSyncState, CurrentAccount,
                                  [LastSyncDate |-> clock])
    /\ i' = i + 1
    /\ UNCHANGED <<envVars, diskVars, histVars, auditVars>>
    /\ UNCHANGED <<pc, state, sfResp, balances, totalStartDate,
                   totalEndDate, currentStartDate, ai, ti>>
    /\ UNCHANGED <<inputVars, logVars, cacheVars>>
    /\ UNCHANGED setupVars

\* simplefin.go:113-117: a balance-only account is not paged.
AccountSkip ==
    /\ pc = "account"
    /\ i <= Len(AccountOrder)
    /\ BalanceOnly(CurrentAccount)
    /\ i' = i + 1
    /\ UNCHANGED <<envVars, diskVars, histVars, auditVars>>
    /\ UNCHANGED <<pc, state, accountSyncState, sfResp, balances, totalStartDate,
                   totalEndDate, currentStartDate, ai, ti>>
    /\ UNCHANGED <<inputVars, logVars, cacheVars>>
    /\ UNCHANGED setupVars

\* The clock readings a second read can give after a first read of clock.
LaterReads ==
    {clock} \cup (IF faults < MaxFaults THEN {clock + 1} ELSE {})

\* simplefin.go:119-126: the range of the account.  getTransactionDateRange
\* reads the clock for the end and, with no cursor, once more for the start.
AccountRange ==
    /\ pc = "account"
    /\ i <= Len(AccountOrder)
    /\ ~BalanceOnly(CurrentAccount)
    /\ \E now2 \in LaterReads :
         LET range == getTransactionDateRange(CurrentAccount,
                                              accountSyncState, clock, now2)
         IN  /\ HasCursor(CurrentAccount, accountSyncState) => now2 = clock
             /\ totalStartDate' = range[1]
             /\ totalEndDate' = range[2]
             /\ currentStartDate' = range[1]
             /\ clock' = now2
             /\ faults' = faults + (now2 - clock)
    /\ windows' = <<>>
    /\ pc' = "page"
    /\ UNCHANGED <<upstream, ledger, diskVars>>
    /\ UNCHANGED <<state, accountSyncState, sfResp, balances, i, ai, ti>>
    /\ UNCHANGED <<pass, lastExit, calls, attemptedNow, failedNow,
                   failedLast, acked, quietRerun, changed, crashInFlight>>
    /\ UNCHANGED auditVars
    /\ UNCHANGED <<inputVars, logVars, cacheVars>>
    /\ UNCHANGED setupVars

\* Transactions oldest first.
RECURSIVE SortedByTime(_)
SortedByTime(S) ==
    IF S = {} THEN <<>>
    ELSE LET t == CHOOSE x \in S : \A y \in S :
                      \/ TransactedAt(x) < TransactedAt(y)
                      \/ (TransactedAt(x) = TransactedAt(y) /\ x <= y)
         IN  <<t>> \o SortedByTime(S \ {t})

\* A page as if its transactions were sorted by date before they are
\* appended.
FetchPageSortsByDate ==
    /\ pc = "page"
    /\ currentStartDate < totalEndDate
    /\ LET currentEndDate == CurrentEndDate(currentStartDate, totalEndDate)
           page == UpstreamPage(CurrentAccount, currentStartDate,
                                currentEndDate)
       IN  /\ windows' = Append(windows, <<currentStartDate, currentEndDate>>)
           /\ sfResp' = [sfResp EXCEPT ![CurrentAccount] =
                            @ \o SortedByTime({page[k] : k \in 1..Len(page)})]
           /\ currentStartDate' = currentEndDate
    /\ UNCHANGED <<envVars, diskVars>>
    /\ UNCHANGED <<pc, state, accountSyncState, balances, i, totalStartDate,
                   totalEndDate, ai, ti>>
    /\ UNCHANGED <<pass, lastExit, calls, attemptedNow, failedNow,
                   failedLast, acked, quietRerun, changed, crashInFlight, faults>>
    /\ UNCHANGED auditVars
    /\ warnings' = warnings \o upstreamErrors
    /\ UNCHANGED callLog
    /\ UNCHANGED <<inputVars, cacheVars>>
    /\ UNCHANGED setupVars

\* A page as if a response that carries errors were a failed request.
FetchPageErrorsFatal ==
    /\ pc = "page"
    /\ currentStartDate < totalEndDate
    /\ IF upstreamErrors # <<>>
       THEN /\ Exit("fatal")
            /\ UNCHANGED warnings
       ELSE LET currentEndDate ==
                    CurrentEndDate(currentStartDate, totalEndDate)
            IN  /\ windows' =
                       Append(windows, <<currentStartDate, currentEndDate>>)
                /\ sfResp' = [sfResp EXCEPT ![CurrentAccount] =
                       @ \o UpstreamPage(CurrentAccount, currentStartDate,
                                         currentEndDate)]
                /\ currentStartDate' = currentEndDate
                /\ warnings' = warnings \o upstreamErrors
                /\ UNCHANGED <<pc, state, accountSyncState, balances, i,
                               totalStartDate, totalEndDate, ai, ti,
                               lastExit>>
    /\ UNCHANGED <<envVars, diskVars>>
    /\ UNCHANGED <<pass, calls, attemptedNow, failedNow,
                   failedLast, acked, quietRerun, changed, crashInFlight, faults>>
    /\ UNCHANGED auditVars
    /\ UNCHANGED callLog
    /\ UNCHANGED <<inputVars, cacheVars>>
    /\ UNCHANGED setupVars

\* A page as if an empty one meant the end of the account's data: the
\* paging loop is left.
FetchPageStopsOnEmpty ==
    /\ pc = "page"
    /\ currentStartDate < totalEndDate
    /\ LET currentEndDate == CurrentEndDate(currentStartDate, totalEndDate)
           page == UpstreamPage(CurrentAccount, currentStartDate,
                                currentEndDate)
       IN  /\ windows' = Append(windows, <<currentStartDate, currentEndDate>>)
           /\ sfResp' = [sfResp EXCEPT ![CurrentAccount] = @ \o page]
           /\ currentStartDate' =
                  IF page = <<>> THEN totalEndDate ELSE currentEndDate
    /\ UNCHANGED <<envVars, diskVars>>
    /\ UNCHANGED <<pc, state, accountSyncState, balances, i, totalStartDate,
                   totalEndDate, ai, ti>>
    /\ UNCHANGED <<pass, lastExit, calls, attemptedNow, failedNow,
                   failedLast, acked, quietRerun, changed, crashInFlight, faults>>
    /\ UNCHANGED auditVars
    /\ warnings' = warnings \o upstreamErrors
    /\ UNCHANGED callLog
    /\ UNCHANGED <<inputVars, cacheVars>>
    /\ UNCHANGED setupVars

\* simplefin.go:127-175: one page is requested, read and decoded; its
\* transactions are appended and the next page starts where it ended.
FetchPage ==
    /\ pc = "page"
    /\ currentStartDate < totalEndDate
    /\ LET currentEndDate == CurrentEndDate(currentStartDate, totalEndDate)
       IN  /\ windows' = Append(windows, <<currentStartDate, currentEndDate>>)
           /\ sfResp' = [sfResp EXCEPT ![CurrentAccount] =
                            @ \o UpstreamPage(CurrentAccount,
                                              currentStartDate, currentEndDate)]
           /\ currentStartDate' = currentEndDate
    /\ UNCHANGED <<envVars, diskVars>>
    /\ UNCHANGED <<pc, state, accountSyncState, balances, i, totalStartDate,
                   totalEndDate, ai, ti>>
    /\ UNCHANGED <<pass, lastExit, calls, attemptedNow, failedNow,
                   failedLast, acked, quietRerun, changed, crashInFlight, faults>>
    /\ UNCHANGED auditVars
    /\ warnings' = warnings \o upstreamErrors
    /\ UNCHANGED callLog
    /\ UNCHANGED <<inputVars, cacheVars>>
    /\ UNCHANGED setupVars

\* A failed page request as if it were handled like an undecodable page:
\* logged, the paging loop of the account left by break.
FetchPageFailBreaks ==
    /\ pc = "page"
    /\ currentStartDate < totalEndDate
    /\ failedFetch' = CurrentAccount
    /\ windows' = Append(windows,
           <<currentStartDate, CurrentEndDate(currentStartDate, totalEndDate)>>)
    /\ pc' = "broke"
    /\ faults < MaxFaults
    /\ faults' = faults + 1
    /\ UNCHANGED <<envVars, diskVars>>
    /\ UNCHANGED <<state, accountSyncState, sfResp, balances, i,
                   totalStartDate, totalEndDate, currentStartDate, ai, ti>>
    /\ UNCHANGED <<pass, lastExit, calls, attemptedNow, failedNow,
                   failedLast, acked, quietRerun, changed, crashInFlight>>
    /\ UNCHANGED <<diskAtStart, finished, incomplete>>
    /\ UNCHANGED <<inputVars, logVars, cacheVars>>
    /\ UNCHANGED setupVars

\* simplefin.go:144-154: the page request fails (network error or a status
\* other than 200): log.Fatalf.
FetchPageFail ==
    /\ pc = "page"
    /\ currentStartDate < totalEndDate
    /\ failedFetch' = CurrentAccount
    /\ Fatal

\* simplefin.go:159-163: the page does not decode: the paging loop of the
\* account is left (break) and the code after the loop runs.
FetchPageUndecodable ==
    /\ pc = "page"
    /\ currentStartDate < totalEndDate
    /\ windows' = Append(windows,
           <<currentStartDate, CurrentEndDate(currentStartDate, totalEndDate)>>)
    /\ pc' = "broke"
    /\ faults < MaxFaults
    /\ faults' = faults + 1
    /\ UNCHANGED <<envVars, diskVars>>
    /\ UNCHANGED <<state, accountSyncState, sfResp, balances, i, totalStartDate,
                   totalEndDate, currentStartDate, ai, ti>>
    /\ UNCHANGED <<pass, lastExit, calls, attemptedNow, failedNow,
                   failedLast, acked, quietRerun, changed, crashInFlight>>
    /\ incomplete' = incomplete \cup {CurrentAccount}
    /\ UNCHANGED <<diskAtStart, failedFetch, finished>>
    /\ UNCHANGED <<inputVars, logVars, cacheVars>>
    /\ UNCHANGED setupVars

\* The paging loop of the current account is over.
PagingOver ==
    \/ pc = "page" /\ currentStartDate >= totalEndDate
    \/ pc = "broke"

\* simplefin.go:190-196: tmp/account_<id>.json
CachedAccount(a, balance, txs, now) ==
    Written([account |-> [ID |-> a, Balance |-> balance, Transactions |-> txs],
             fetched_at |-> now])

\* The end of an account as if the cursor were taken from the clock again.
FinishAccountAtClock ==
    /\ PagingOver
    /\ accountSyncState' = MapPut(accountSyncState, CurrentAccount,
                                  [LastSyncDate |-> clock])
    /\ cacheFiles' = [cacheFiles EXCEPT ![CurrentAccount] =
                         CachedAccount(CurrentAccount, balances[CurrentAccount],
                                       sfResp[CurrentAccount], clock)]
    /\ i' = i + 1
    /\ pc' = "account"
    /\ finished' = Append(finished, <<CurrentAccount, clock>>)
    /\ UNCHANGED <<diskAtStart, failedFetch, incomplete>>
    /\ UNCHANGED <<envVars, stateFile, syncFile, histVars>>
    /\ UNCHANGED <<state, sfResp, balances, totalStartDate, totalEndDate,
                   currentStartDate, ai, ti>>
    /\ UNCHANGED <<inputVars, logVars, cacheVars>>
    /\ UNCHANGED setupVars

\* The end of an account as if the snapshot held the last page alone.
FinishAccountCachesLastPage ==
    /\ PagingOver
    /\ accountSyncState' = MapPut(accountSyncState, CurrentAccount,
                                  [LastSyncDate |-> totalEndDate])
    /\ cacheFiles' = [cacheFiles EXCEPT ![CurrentAccount] =
                         CachedAccount(CurrentAccount, balances[CurrentAccount],
                             IF windows = <<>> THEN <<>>
                             ELSE UpstreamPage(CurrentAccount,
                                               windows[Len(windows)][1],
                                               windows[Len(windows)][2]),
                             clock)]
    /\ i' = i + 1
    /\ pc' = "account"
    /\ finished' = Append(finished, <<CurrentAccount, totalEndDate>>)
    /\ UNCHANGED <<diskAtStart, failedFetch, incomplete>>
    /\ UNCHANGED <<envVars, stateFile, syncFile, histVars>>
    /\ UNCHANGED <<state, sfResp, balances, totalStartDate, totalEndDate,
                   currentStartDate, ai, ti>>
    /\ UNCHANGED <<inputVars, logVars, cacheVars>>
    /\ UNCHANGED setupVars

\* simplefin.go:178-196: after the paging loop the cursor of the account is
\* set to the end of the range and the account is cached.
FinishAccount ==
    /\ PagingOver
    /\ accountSyncState' = MapPut(accountSyncState, CurrentAccount,
                                  [LastSyncDate |-> totalEndDate])
    /\ cacheFiles' = [cacheFiles EXCEPT ![CurrentAccount] =
                         CachedAccount(CurrentAccount, balances[CurrentAccount],
                                       sfResp[CurrentAccount], clock)]
    /\ i' = i + 1
    /\ pc' = "account"
    /\ finished' = Append(finished, <<CurrentAccount, totalEndDate>>)
    /\ UNCHANGED <<diskAtStart, failedFetch, incomplete>>
    /\ UNCHANGED <<envVars, stateFile, syncFile, histVars>>
    /\ UNCHANGED <<state, sfResp, balances, totalStartDate, totalEndDate,
                   currentStartDate, ai, ti>>
    /\ UNCHANGED <<inputVars, logVars, cacheVars>>
    /\ UNCHANGED setupVars

\* The end of the fetch as if the save of the cursors were left to the end
\* of the pass.
SaveSyncDeferred ==
    /\ pc = "account"
    /\ i > Len(AccountOrder)
    /\ ai' = 1
    /\ ti' = 0
    /\ pc' = "dispatch"
    /\ UNCHANGED <<envVars, diskVars, histVars, auditVars>>
    /\ UNCHANGED <<state, accountSyncState, sfResp, balances, i, totalStartDate,
                   totalEndDate, currentStartDate>>
    /\ UNCHANGED <<inputVars, logVars, cacheVars>>
    /\ UNCHANGED setupVars

\* simplefin.go:199-203: the cursors are saved and the accounts returned;
\* main.go:122-124: the dispatch loop starts.
SaveSync ==
    /\ pc = "account"
    /\ i > Len(AccountOrder)
    /\ syncFile' = SaveAccountSyncState(accountSyncState)
    /\ ai' = 1
    /\ ti' = 0
    /\ pc' = "dispatch"
    /\ UNCHANGED <<envVars, stateFile, cacheFiles, histVars, auditVars>>
    /\ UNCHANGED <<state, accountSyncState, sfResp, balances, i, totalStartDate,
                   totalEndDate, currentStartDate>>
    /\ UNCHANGED <<inputVars, logVars, cacheVars>>
    /\ UNCHANGED setupVars

\* ------------------------------------------------------ main, dispatch loop

DispatchAccount == AccountOrder[ai]

\* main.go:125  maybeAccountID, mapped := config.AccountMap[account.ID]
Mapped(a) == a \in DOMAIN accountMap

\* main.go:173-174: every account was visited, main returns.
DispatchDone ==
    /\ pc = "dispatch"
    /\ ai > Len(AccountOrder)
    /\ Exit("done")
    /\ UNCHANGED <<envVars, diskVars>>
    /\ UNCHANGED <<pass, calls, attemptedNow, failedNow,
                   failedLast, acked, quietRerun, changed, crashInFlight, faults>>
    /\ UNCHANGED auditVars
    /\ UNCHANGED <<inputVars, logVars, cacheVars>>
    /\ UNCHANGED setupVars

\* The next account as if an unmapped one ended the pass.
DispatchEnterAbortsUnmapped ==
    /\ pc = "dispatch"
    /\ ai <= Len(AccountOrder)
    /\ IF Mapped(DispatchAccount)
       THEN /\ pc' = "tx" /\ ti' = 1 /\ ai' = ai
            /\ UNCHANGED <<state, accountSyncState, sfResp, balances, i,
                           totalStartDate, totalEndDate, currentStartDate>>
            /\ UNCHANGED <<lastExit, windows>>
       ELSE Exit("fatal")
    /\ UNCHANGED <<envVars, diskVars>>
    /\ UNCHANGED <<pass, calls, attemptedNow, failedNow,
                   failedLast, acked, quietRerun, changed, crashInFlight, faults>>
    /\ UNCHANGED auditVars
    /\ UNCHANGED <<inputVars, logVars, cacheVars>>
    /\ UNCHANGED setupVars

\* main.go:124-142: the next account; an unmapped one is skipped.
DispatchEnter ==
    /\ pc = "dispatch"
    /\ ai <= Len(AccountOrder)
    /\ Mapped(DispatchAccount) \/ ~autoCreate
    /\ IF Mapped(DispatchAccount)
       THEN pc' = "tx" /\ ti' = 1 /\ ai' = ai
       ELSE pc' = "dispatch" /\ ti' = 0 /\ ai' = ai + 1
    /\ UNCHANGED <<envVars, diskVars, histVars, auditVars>>
    /\ UNCHANGED <<state, accountSyncState, sfResp, balances, i, totalStartDate,
                   totalEndDate, currentStartDate>>
    /\ UNCHANGED <<inputVars, logVars, cacheVars>>
    /\ UNCHANGED setupVars

Transactions == sfResp[DispatchAccount]

\* main.go:144: the transactions of the account are exhausted.
TxLoopEnd ==
    /\ pc = "tx"
    /\ ti > Len(Transactions)
    /\ ai' = ai + 1
    /\ ti' = 0
    /\ pc' = "dispatch"
    /\ UNCHANGED <<envVars, diskVars, histVars, auditVars>>
    /\ UNCHANGED <<state, accountSyncState, sfResp, balances, i, totalStartDate,
                   totalEndDate, currentStartDate>>
    /\ UNCHANGED <<inputVars, logVars, cacheVars>>
    /\ UNCHANGED setupVars

\* main.go:150  time.Unix(tx.TransactedAt, 0).Format("2006-01-02"), the
\* location being UTC: the year, month and day of the date.
FormatDate(transactedAt) == CivilFromDays(transactedAt \div Day)

\* The payload as if the amount were sent with its sign reversed.
PayloadNegated(t) ==
    [AccountID |-> accountMap[DispatchAccount].SureID,
     Amount    |-> IF Amount(t) = "100.00" THEN "-100.00" ELSE "12.50",
     Date      |-> FormatDate(TransactedAt(t)),
     Name      |-> Description(t),
     Notes     |-> <<"Imported via SimpleFIN. ID: ", t>>]

\* main.go:151-157: the payload of the create-transaction call; Notes embeds
\* the id of the transaction.
Payload(t) ==
    [AccountID |-> accountMap[DispatchAccount].SureID,
     Amount    |-> Amount(t),
     Date      |-> FormatDate(TransactedAt(t)),
     Name      |-> Description(t),
     Notes     |-> <<"Imported via SimpleFIN. ID: ", t>>]

\* The transaction id that a notes field names.
NotesID(notes) == notes[Len(notes)]

\* The membership test as if it were dropped.
NeverProcessed(t) == FALSE

\* The membership test as if it were made on the ProcessedSet as the pass
\* loaded it.
ProcessedAtStart(t) == t \in DOMAIN LoadState(diskAtStart[1])

\* main.go:145  _, processed := state[tx.ID]
Processed(t) == t \in DOMAIN state

\* main.go:145-147: a processed transaction is skipped.
TxSkip ==
    /\ pc = "tx"
    /\ ti <= Len(Transactions)
    /\ Processed(Transactions[ti])
    /\ ti' = ti + 1
    /\ UNCHANGED <<envVars, diskVars, histVars, auditVars>>
    /\ UNCHANGED <<pc, state, accountSyncState, sfResp, balances, i, totalStartDate,
                   totalEndDate, currentStartDate, ai>>
    /\ UNCHANGED <<inputVars, logVars, cacheVars>>
    /\ UNCHANGED setupVars

\* A failed call as if the error were not checked: the id is marked and saved.
DeliverFailMarks ==
    /\ pc = "tx"
    /\ ti <= Len(Transactions)
    /\ ~Processed(Transactions[ti])
    /\ calls' = [calls EXCEPT ![Transactions[ti]] = @ + 1]
    /\ attemptedNow' = attemptedNow \cup {Transactions[ti]}
    /\ failedNow' = failedNow \cup {Transactions[ti]}
    /\ state' = MapPut(state, Transactions[ti], TRUE)
    /\ stateFile' = SaveState(MapPut(state, Transactions[ti], TRUE))
    /\ ti' = ti + 1
    /\ faults < MaxFaults
    /\ faults' = faults + 1
    /\ UNCHANGED <<envVars, syncFile, cacheFiles>>
    /\ UNCHANGED <<pc, accountSyncState, sfResp, balances, i, totalStartDate,
                   totalEndDate, currentStartDate, ai>>
    /\ UNCHANGED <<pass, lastExit, windows, failedLast, acked,
                   quietRerun, changed, crashInFlight>>
    /\ UNCHANGED auditVars
    /\ callLog' = Append(callLog, Payload(Transactions[ti]))
    /\ UNCHANGED warnings
    /\ UNCHANGED <<inputVars, cacheVars>>
    /\ UNCHANGED setupVars

\* A failed call as if it ended the pass (log.Fatalf in place of continue).
DeliverFailAborts ==
    /\ pc = "tx"
    /\ ti <= Len(Transactions)
    /\ ~Processed(Transactions[ti])
    /\ calls' = [calls EXCEPT ![Transactions[ti]] = @ + 1]
    /\ attemptedNow' = attemptedNow \cup {Transactions[ti]}
    /\ failedNow' = failedNow \cup {Transactions[ti]}
    /\ faults < MaxFaults
    /\ faults' = faults + 1
    /\ Exit("fatal")
    /\ UNCHANGED <<envVars, diskVars>>
    /\ UNCHANGED <<pass, failedLast, acked, quietRerun, changed,
                   crashInFlight>>
    /\ UNCHANGED auditVars
    /\ callLog' = Append(callLog, Payload(Transactions[ti]))
    /\ UNCHANGED warnings
    /\ UNCHANGED <<inputVars, cacheVars>>
    /\ UNCHANGED setupVars

\* main.go:149-163: the create-transaction call fails (network error or a
\* status >= 300): logged, the loop goes on with the next transaction.
DeliverFail ==
    /\ pc = "tx"
    /\ ti <= Len(Transactions)
    /\ ~Processed(Transactions[ti])
    /\ calls' = [calls EXCEPT ![Transactions[ti]] = @ + 1]
    /\ attemptedNow' = attemptedNow \cup {Transactions[ti]}
    /\ failedNow' = failedNow \cup {Transactions[ti]}
    /\ ti' = ti + 1
    /\ faults < MaxFaults
    /\ faults' = faults + 1
    /\ UNCHANGED <<envVars, diskVars>>
    /\ UNCHANGED <<pc, state, accountSyncState, sfResp, balances, i, totalStartDate,
                   totalEndDate, currentStartDate, ai>>
    /\ UNCHANGED <<pass, lastExit, windows, failedLast, acked,
                   quietRerun, changed, crashInFlight>>
    /\ UNCHANGED auditVars
    /\ callLog' = Append(callLog, Payload(Transactions[ti]))
    /\ UNCHANGED warnings
    /\ UNCHANGED <<inputVars, cacheVars>>
    /\ UNCHANGED setupVars

\* main.go:149-159: the create-transaction call returns success.
DeliverOK ==
    /\ pc = "tx"
    /\ ti <= Len(Transactions)
    /\ ~Processed(Transactions[ti])
    /\ calls' = [calls EXCEPT ![Transactions[ti]] = @ + 1]
    /\ attemptedNow' = attemptedNow \cup {Transactions[ti]}
    /\ ledger' = [ledger EXCEPT ![Transactions[ti]] = @ + 1]
    /\ acked' = acked \cup {Transactions[ti]}
    /\ pc' = "mark"
    /\ UNCHANGED <<clock, upstream, diskVars>>
    /\ UNCHANGED <<state, accountSyncState, sfResp, balances, i, totalStartDate,
                   totalEndDate, currentStartDate, ai, ti>>
    /\ UNCHANGED <<pass, lastExit, windows, failedNow, failedLast,
                   quietRerun, changed, crashInFlight, faults>>
    /\ UNCHANGED auditVars
    /\ callLog' = Append(callLog, Payload(Transactions[ti]))
    /\ UNCHANGED warnings
    /\ UNCHANGED <<inputVars, cacheVars>>
    /\ delivered' = Append(delivered, Transactions[ti])
    /\ UNCHANGED <<configFile, autoCreate, inclusiveEnd, claimCalls, created>>

\* The id is marked as if the save were left to the end of the pass.
MarkWithoutSave ==
    /\ pc = "mark"
    /\ state' = MapPut(state, Transactions[ti], TRUE)
    /\ ti' = ti + 1
    /\ pc' = "tx"
    /\ UNCHANGED <<envVars, diskVars, histVars, auditVars>>
    /\ UNCHANGED <<accountSyncState, sfResp, balances, i, totalStartDate, totalEndDate,
                   currentStartDate, ai>>
    /\ UNCHANGED <<inputVars, logVars, cacheVars>>
    /\ UNCHANGED setupVars

\* main.go:165-168: the id is marked and the whole set is saved, then the
\* loop goes on.
MarkProcessed ==
    /\ pc = "mark"
    /\ state' = MapPut(state, Transactions[ti], TRUE)
    /\ stateFile' = SaveState(MapPut(state, Transactions[ti], TRUE))
    /\ ti' = ti + 1
    /\ pc' = "tx"
    /\ UNCHANGED <<envVars, syncFile, cacheFiles, histVars, auditVars>>
    /\ UNCHANGED <<accountSyncState, sfResp, balances, i, totalStartDate, totalEndDate,
                   currentStartDate, ai>>
    /\ UNCHANGED <<inputVars, logVars, cacheVars>>
    /\ UNCHANGED setupVars

\* ------------------------------------------------------------------ crashes

\* The process is killed between two steps.
Crash ==
    /\ pc # "idle"
    /\ faults < MaxFaults
    /\ faults' = faults + 1
    /\ Exit("crash")
    /\ crashInFlight' = (crashInFlight \/ pc = "mark")
    /\ UNCHANGED <<envVars, diskVars>>
    /\ UNCHANGED <<pass, calls, attemptedNow, failedNow,
                   failedLast, acked, quietRerun, changed>>
    /\ UNCHANGED auditVars
    /\ UNCHANGED <<inputVars, logVars, cacheVars>>
    /\ UNCHANGED setupVars

\* The process is killed inside the os.WriteFile of SaveState: the file is
\* truncated, the new content is not in it.
CrashInSaveState ==
    /\ pc = "mark"
    /\ stateFile' = Malformed
    /\ faults < MaxFaults
    /\ faults' = faults + 1
    /\ Exit("crash")
    /\ crashInFlight' = TRUE
    /\ UNCHANGED <<envVars, syncFile, cacheFiles>>
    /\ UNCHANGED <<pass, calls, attemptedNow, failedNow,
                   failedLast, acked, quietRerun, changed>>
    /\ UNCHANGED auditVars
    /\ UNCHANGED <<inputVars, logVars, cacheVars>>
    /\ UNCHANGED setupVars

\* The process is killed inside the os.WriteFile of SaveAccountSyncState.
CrashInSaveSync ==
    /\ pc = "account"
    /\ i > Len(AccountOrder)
    /\ syncFile' = Malformed
    /\ faults < MaxFaults
    /\ faults' = faults + 1
    /\ Exit("crash")
    /\ UNCHANGED <<envVars, stateFile, cacheFiles>>
    /\ UNCHANGED <<pass, calls, attemptedNow, failedNow,
                   failedLast, acked, quietRerun, changed, crashInFlight>>
    /\ UNCHANGED auditVars
    /\ UNCHANGED <<inputVars, logVars, cacheVars>>
    /\ UNCHANGED setupVars

\* --------------------------------------------------------------------- Next

Next ==
    \/ \E t \in TxIds : UpstreamPost(t)
    \/ \E gap \in PassGaps : StartPass(gap)
    \/ FetchBalances
    \/ FetchBalancesFail
    \/ AccountSkip
    \/ AccountRange
    \/ FetchPage
    \/ FetchPageFail
    \/ FetchPageUndecodable
    \/ FinishAccount
    \/ SaveSync
    \/ DispatchDone
    \/ DispatchEnter
    \/ TxLoopEnd
    \/ TxSkip
    \/ DeliverFail
    \/ DeliverOK
    \/ MarkProcessed
    \/ Crash
    \/ CrashInSaveState
    \/ CrashInSaveSync

Spec == Init /\ [][Next]_vars

\* ------------------------------------------------------ runs over the inputs

\* The clock readings a first pass is started at: 14 March 2024, a year
\* after which 29 February lies; 29 February 2024; noon of 5 December 2023,
\* less than a day after a transaction; and day 460 after the epoch.
Times ==
    {DaysFromCivil(2024, 3, 14) * Day,
     DaysFromCivil(2024, 2, 29) * Day,
     DaysFromCivil(2023, 12, 5) * Day + Day \div 2,
     460 * Day}

\* The account maps of config.json explored: every account mapped, and
\* account A not mapped.
Configs == {AccountMap, [a \in {"B", "C"} |-> AccountMap[a]]}

\* The errors lists upstream attaches to its responses.
ErrorLists == {<<>>, <<"e1", "e2">>}

\* A fresh installation started at any of the times, with any of the
\* configurations, with or without -force-refresh, against an upstream that
\* attaches any of the errors lists.  The one disturbance explored is of
\* the clock: a second passing between two reads, or a step back.
InitInputs ==
    /\ clock \in Times
    /\ forceRefresh \in BOOLEAN
    /\ accountMap \in Configs
    /\ upstreamErrors \in ErrorLists
    /\ faults = MaxFaults - 1
    /\ upstream = {}
    /\ ledger = [t \in TxIds |-> 0]
    /\ stateFile = Missing
    /\ syncFile = Missing
    /\ cacheFiles = [a \in Accounts |-> Missing]
    /\ pc = "idle"
    /\ state = EmptyMap
    /\ accountSyncState = EmptyMap
    /\ sfResp = NoAccounts
    /\ balances = EmptyMap
    /\ i = 0
    /\ totalStartDate = 0
    /\ totalEndDate = 0
    /\ currentStartDate = 0
    /\ ai = 0
    /\ ti = 0
    /\ pass = 0
    /\ lastExit = "none"
    /\ windows = <<>>
    /\ calls = [t \in TxIds |-> 0]
    /\ attemptedNow = {}
    /\ failedNow = {}
    /\ failedLast = {}
    /\ acked = {}
    /\ quietRerun = FALSE
    /\ changed = FALSE
    /\ crashInFlight = FALSE
    /\ diskAtStart = <<Missing, Missing, [a \in Accounts |-> Missing]>>
    /\ failedFetch = "none"
    /\ finished = <<>>
    /\ incomplete = {}
    /\ warnings = <<>>
    /\ callLog = <<>>
    /\ fi = 0
    /\ allAccounts = <<>>
    /\ cachedMap = EmptyMap
    /\ needsPull = FALSE
    /\ pulled = FALSE
    /\ configFile = ConfigOf(accountMap)
    /\ autoCreate = FALSE
    /\ inclusiveEnd = FALSE
    /\ claimCalls = 0
    /\ created = <<>>
    /\ delivered = <<>>

\* The steps of passes in which every call succeeds.
NextPlain ==
    \/ \E t \in TxIds : UpstreamPost(t)
    \/ \E gap \in PassGaps : StartPass(gap)
    \/ FetchBalances
    \/ AccountSkip
    \/ AccountRange
    \/ FetchPage
    \/ FinishAccount
    \/ SaveSync
    \/ DispatchDone
    \/ DispatchEnter
    \/ TxLoopEnd
    \/ TxSkip
    \/ DeliverOK
    \/ MarkProcessed

SpecInputs == InitInputs /\ [][NextPlain]_vars

\* ------------------------------------------------ fetchSimpleFINData, cached

\* part_000:226, 257: a snapshot is fresh for 24 hours.
CacheTTL == 24 * 60 * 60

\* part_000:214: os.ReadDir lists the files that exist, sorted by name.
CacheOrder == <<"A", "B", "C">>

ReadDir == SelectSeq(CacheOrder, LAMBDA a : cacheFiles[a].st # "missing")

\* The ages of the snapshots found when the first call starts.
Ages == {0, CacheTTL - 1, CacheTTL}

\* What tmp/account_<id>.json can be when the first call starts.
CacheStates(a) ==
    {Missing, Malformed}
        \cup {CachedAccount(a, "0.00", <<>>, Base - age) : age \in Ages}

\* The seconds between the return of a call and the start of the next.
CacheGaps == {0, CacheTTL}

\* What the cached fetch leaves alone.
cacheIdle == <<upstream, ledger, stateFile, syncFile, state, accountSyncState,
               balances, i, totalStartDate, totalEndDate, currentStartDate,
               ai, ti, windows, calls, attemptedNow, failedNow, failedLast,
               acked, quietRerun, changed, crashInFlight, failedFetch,
               finished, incomplete, inputVars, logVars, setupVars>>

\* The accounts of a response, each with its transactions.
Response(accounts) ==
    [a \in Accounts |->
        IF \E k \in 1..Len(accounts) : accounts[k].ID = a
        THEN LET k == CHOOSE k \in 1..Len(accounts) : accounts[k].ID = a
             IN  accounts[k].Transactions
        ELSE <<>>]

\* What /accounts answers: each account with its transactions.
UpstreamAccounts ==
    [k \in 1..Len(AccountOrder) |->
        [ID |-> AccountOrder[k],
         Balance |-> UpstreamBalances[AccountOrder[k]],
         Transactions |->
             Listed({t \in upstream : TxAccount(t) = AccountOrder[k]})]]

\* part_000:206-215: the call; nothing is loaded yet.
CacheStart(gap) ==
    /\ pc = "idle"
    /\ pass < MaxPasses
    /\ pass = 0 => gap = 0
    /\ pass' = pass + 1
    /\ clock' = clock + gap
    /\ pc' = "files"
    /\ fi' = 1
    /\ allAccounts' = <<>>
    /\ cachedMap' = EmptyMap
    /\ needsPull' = FALSE
    /\ pulled' = FALSE
    /\ sfResp' = NoAccounts
    /\ diskAtStart' = <<stateFile, syncFile, cacheFiles>>
    /\ UNCHANGED <<cacheFiles, lastExit, faults>>
    /\ UNCHANGED cacheIdle

\* part_000:216-231: the next file of the directory.  Only a snapshot that
\* decodes, with no forced refresh, and younger than 24 hours is taken.
CacheReadFile ==
    /\ pc = "files"
    /\ fi <= Len(ReadDir)
    /\ LET f == cacheFiles[ReadDir[fi]]
       IN  \E now \in LaterReads :
             /\ (f.st # "ok" \/ forceRefresh) => now = clock
             /\ clock' = now
             /\ faults' = faults + (now - clock)
             /\ IF /\ f.st = "ok"
                   /\ ~forceRefresh
                   /\ now - f.data.fetched_at < CacheTTL
                THEN /\ allAccounts' = Append(allAccounts, f.data.account)
                     /\ cachedMap' = MapPut(cachedMap, f.data.account.ID,
                                            f.data)
                ELSE UNCHANGED <<allAccounts, cachedMap>>
    /\ fi' = fi + 1
    /\ UNCHANGED <<pc, needsPull, pulled, sfResp, diskAtStart, cacheFiles,
                   lastExit, pass>>
    /\ UNCHANGED cacheIdle

\* part_000:252-262: a pull is needed when a refresh is forced or nothing
\* was taken from the cache, or when a snapshot that was taken is expired.
CacheNeedsPull ==
    /\ pc = "files"
    /\ fi > Len(ReadDir)
    /\ LET first == forceRefresh \/ Len(allAccounts) = 0
       IN  \E now \in LaterReads :
             /\ (first \/ DOMAIN cachedMap = {}) => now = clock
             /\ clock' = now
             /\ faults' = faults + (now - clock)
             /\ needsPull' =
                  \/ first
                  \/ \E id \in DOMAIN cachedMap :
                         now - cachedMap[id].fetched_at >= CacheTTL
    /\ pc' = "decided"
    /\ UNCHANGED <<fi, allAccounts, cachedMap, pulled, sfResp, diskAtStart,
                   cacheFiles, lastExit, pass>>
    /\ UNCHANGED cacheIdle

\* part_000:264-288: the pull; each account of the answer is cached.
CachePull ==
    /\ pc = "decided"
    /\ needsPull
    /\ pulled' = TRUE
    /\ sfResp' = Response(UpstreamAccounts)
    /\ cacheFiles' =
          [a \in Accounts |-> CachedAccount(a, UpstreamBalances[a],
                                            Response(UpstreamAccounts)[a],
                                            clock)]
    /\ pc' = "idle"
    /\ lastExit' = "done"
    /\ UNCHANGED <<clock, fi, allAccounts, cachedMap, needsPull, diskAtStart,
                   faults, pass>>
    /\ UNCHANGED cacheIdle

\* part_000:266-270: the pull fails and the process exits.
CachePullFails ==
    /\ pc = "decided"
    /\ needsPull
    /\ faults < MaxFaults
    /\ faults' = faults + 1
    /\ pulled' = TRUE
    /\ pc' = "idle"
    /\ lastExit' = "fatal"
    /\ UNCHANGED <<clock, fi, allAccounts, cachedMap, needsPull, diskAtStart,
                   sfResp, cacheFiles, pass>>
    /\ UNCHANGED cacheIdle

\* part_000:290-291: the accounts taken from the cache are returned.
CacheUse ==
    /\ pc = "decided"
    /\ ~needsPull
    /\ sfResp' = Response(allAccounts)
    /\ pc' = "idle"
    /\ lastExit' = "done"
    /\ UNCHANGED <<clock, fi, allAccounts, cachedMap, needsPull, pulled,
                   diskAtStart, cacheFiles, faults, pass>>
    /\ UNCHANGED cacheIdle

\* The stores of the cache as a first call can find them.
InitCache ==
    /\ clock = Base
    /\ upstream = {t \in TxIds : TransactedAt(t) < Base}
    /\ ledger = {}
    /\ stateFile = Missing
    /\ syncFile = Missing
    /\ cacheFiles \in {f \in [Accounts -> UNION {CacheStates(a) : a \in Accounts}] :
                          \A a \in Accounts : f[a] \in CacheStates(a)}
    /\ forceRefresh \in BOOLEAN
    /\ accountMap = AccountMap
    /\ upstreamErrors = <<>>
    /\ pc = "idle"
    /\ state = EmptyMap
    /\ accountSyncState = EmptyMap
    /\ sfResp = NoAccounts
    /\ balances = EmptyMap
    /\ i = 0
    /\ totalStartDate = 0
    /\ totalEndDate = 0
    /\ currentStartDate = 0
    /\ ai = 0
    /\ ti = 0
    /\ pass = 0
    /\ lastExit = "none"
    /\ windows = <<>>
    /\ calls = [t \in TxIds |-> 0]
    /\ attemptedNow = {}
    /\ failedNow = {}
    /\ failedLast = {}
    /\ acked = {}
    /\ quietRerun = FALSE
    /\ changed = FALSE
    /\ crashInFlight = FALSE
    /\ faults = MaxFaults - 1
    /\ diskAtStart = <<Missing, Missing, [a \in Accounts |-> Missing]>>
    /\ failedFetch = "none"
    /\ finished = <<>>
    /\ incomplete = {}
    /\ warnings = <<>>
    /\ callLog = <<>>
    /\ fi = 0
    /\ allAccounts = <<>>
    /\ cachedMap = EmptyMap
    /\ needsPull = FALSE
    /\ pulled = FALSE
    /\ configFile = ConfigOf(AccountMap)
    /\ autoCreate = FALSE
    /\ inclusiveEnd = FALSE
    /\ claimCalls = 0
    /\ created = <<>>
    /\ delivered = <<>>

NextCache ==
    \/ \E gap \in CacheGaps : CacheStart(gap)
    \/ CacheReadFile
    \/ CacheNeedsPull
    \/ CachePull
    \/ CachePullFails
    \/ CacheUse

SpecCache == InitCache /\ [][NextCache]_vars

\* ------------------------------------------- bootstrap and account creation

\* The access URL that the claim exchange answers.
ClaimedURL == "https://bridge"

\* The id the ledger gives to the account created for a source account.
CreatedID(a) == "created-" \o a

\* What every start of a pass does to the record of the pass.
PassRecordReset ==
    /\ attemptedNow' = {}
    /\ failedNow' = {}
    /\ failedLast' = IF lastExit = "done" THEN failedNow ELSE {}
    /\ acked' = DOMAIN LoadState(stateFile)
    /\ quietRerun' = (lastExit = "done" /\ ~changed)
    /\ changed' = FALSE
    /\ diskAtStart' = <<stateFile, syncFile, cacheFiles>>
    /\ failedFetch' = "none"
    /\ finished' = <<>>
    /\ incomplete' = {}
    /\ warnings' = <<>>
    /\ callLog' = <<>>
    /\ accountMap' = configFile.AccountMap
    /\ created' = <<>>
    /\ delivered' = <<>>
    /\ UNCHANGED <<upstream, ledger, diskVars, calls, crashInFlight>>
    /\ UNCHANGED <<forceRefresh, upstreamErrors, cacheVars>>
    /\ UNCHANGED <<autoCreate, inclusiveEnd>>

\* The start of a pass as if the claimed access URL were kept in memory
\* only.
StartPassClaimUnsaved(gap) ==
    /\ pc = "idle"
    /\ pass < MaxPasses
    /\ configFile.AccessURL = ""
    /\ configFile.SetupToken # ""
    /\ pass = 0 => gap = 0
    /\ gap < 0 => faults < MaxFaults
    /\ faults' = faults + (IF gap < 0 THEN 1 ELSE 0)
    /\ pass' = pass + 1
    /\ clock' = clock + gap
    /\ state' = LoadState(stateFile)
    /\ claimCalls' = claimCalls + 1
    /\ UNCHANGED configFile
    /\ pc' = "balances"
    /\ UNCHANGED <<accountSyncState, sfResp, balances, i, totalStartDate,
                   totalEndDate, currentStartDate, ai, ti>>
    /\ UNCHANGED <<lastExit, windows>>
    /\ PassRecordReset

\* main.go:94-113: the start of a pass with no access URL in config.json and
\* a setup token: the token is exchanged and the access URL saved.
StartPassClaim(gap) ==
    /\ pc = "idle"
    /\ pass < MaxPasses
    /\ configFile.AccessURL = ""
    /\ configFile.SetupToken # ""
    /\ pass = 0 => gap = 0
    /\ gap < 0 => faults < MaxFaults
    /\ faults' = faults + (IF gap < 0 THEN 1 ELSE 0)
    /\ pass' = pass + 1
    /\ clock' = clock + gap
    /\ state' = LoadState(stateFile)
    /\ claimCalls' = claimCalls + 1
    /\ configFile' = [configFile EXCEPT !.AccessURL = ClaimedURL]
    /\ pc' = "balances"
    /\ UNCHANGED <<accountSyncState, sfResp, balances, i, totalStartDate,
                   totalEndDate, currentStartDate, ai, ti>>
    /\ UNCHANGED <<lastExit, windows>>
    /\ PassRecordReset

\* main.go:111, 185-190: the claim exchange fails and the process exits.
StartPassClaimFails(gap) ==
    /\ pc = "idle"
    /\ pass < MaxPasses
    /\ configFile.AccessURL = ""
    /\ configFile.SetupToken # ""
    /\ pass = 0 => gap = 0
    /\ gap >= 0
    /\ faults < MaxFaults
    /\ faults' = faults + 1
    /\ pass' = pass + 1
    /\ clock' = clock + gap
    /\ claimCalls' = claimCalls + 1
    /\ UNCHANGED configFile
    /\ Exit("fatal")
    /\ PassRecordReset

\* main.go:114-116: no access URL and no setup token, the process exits.
StartPassNoAccess(gap) ==
    /\ pc = "idle"
    /\ pass < MaxPasses
    /\ configFile.AccessURL = ""
    /\ configFile.SetupToken = ""
    /\ pass = 0 => gap = 0
    /\ gap >= 0
    /\ pass' = pass + 1
    /\ clock' = clock + gap
    /\ UNCHANGED <<faults, claimCalls, configFile>>
    /\ Exit("fatal")
    /\ PassRecordReset

\* What the creation of an account leaves alone.
createIdle == <<envVars, diskVars, pass, calls, attemptedNow, failedNow,
                failedLast, acked, quietRerun, changed, crashInFlight,
                auditVars, forceRefresh, upstreamErrors, logVars, cacheVars,
                autoCreate, inclusiveEnd, claimCalls, delivered>>

\* The creation of an account as if the new mapping were kept in memory
\* only.
DispatchCreateUnsaved ==
    /\ pc = "dispatch"
    /\ ai <= Len(AccountOrder)
    /\ ~Mapped(DispatchAccount)
    /\ autoCreate
    /\ accountMap' = MapPut(accountMap, DispatchAccount,
                            [SureID |-> CreatedID(DispatchAccount),
                             BalanceOnly |-> FALSE])
    /\ UNCHANGED configFile
    /\ created' = Append(created, <<DispatchAccount, "created">>)
    /\ pc' = "tx"
    /\ ti' = 1
    /\ UNCHANGED <<state, accountSyncState, sfResp, balances, i,
                   totalStartDate, totalEndDate, currentStartDate, ai>>
    /\ UNCHANGED <<lastExit, faults, windows>>
    /\ UNCHANGED createIdle

\* main.go:126-137: an account that is not mapped is created in the ledger,
\* the mapping is put into the config and the config is saved; then the
\* transactions of the account are taken.
DispatchCreate ==
    /\ pc = "dispatch"
    /\ ai <= Len(AccountOrder)
    /\ ~Mapped(DispatchAccount)
    /\ autoCreate
    /\ accountMap' = MapPut(accountMap, DispatchAccount,
                            [SureID |-> CreatedID(DispatchAccount),
                             BalanceOnly |-> FALSE])
    /\ configFile' = [configFile EXCEPT !.AccountMap =
                         MapPut(accountMap, DispatchAccount,
                                [SureID |-> CreatedID(DispatchAccount),
                                 BalanceOnly |-> FALSE])]
    /\ created' = Append(created, <<DispatchAccount, "created">>)
    /\ pc' = "tx"
    /\ ti' = 1
    /\ UNCHANGED <<state, accountSyncState, sfResp, balances, i,
                   totalStartDate, totalEndDate, currentStartDate, ai>>
    /\ UNCHANGED <<lastExit, faults, windows>>
    /\ UNCHANGED createIdle

\* main.go:129-133: the creation fails and the process exits.
DispatchCreateFails ==
    /\ pc = "dispatch"
    /\ ai <= Len(AccountOrder)
    /\ ~Mapped(DispatchAccount)
    /\ autoCreate
    /\ faults < MaxFaults
    /\ faults' = faults + 1
    /\ created' = Append(created, <<DispatchAccount, "failed">>)
    /\ Exit("fatal")
    /\ UNCHANGED <<accountMap, configFile>>
    /\ UNCHANGED createIdle

\* The day on which a window of the first pass ends at the instant of a
\* transaction.
SetupDay == DaysFromCivil(2023, 12, 10) * Day

\* The access URLs and setup tokens config.json can hold.
AccessURLs == {"", ClaimedURL}

SetupTokens == {"", "token"}

\* The installations: config.json with or without an access URL, a setup
\* token and a mapping of the first account; the flag; the upstream's
\* reading of end-date.
InitSetup ==
    /\ clock = SetupDay
    /\ upstream = {t \in TxIds : TransactedAt(t) < SetupDay}
    /\ configFile \in [AccessURL : AccessURLs, SetupToken : SetupTokens,
                       AccountMap : Configs]
    /\ accountMap = configFile.AccountMap
    /\ autoCreate \in BOOLEAN
    /\ inclusiveEnd \in BOOLEAN
    /\ forceRefresh = FALSE
    /\ upstreamErrors = <<>>
    /\ faults = MaxFaults - 1
    /\ ledger = [t \in TxIds |-> 0]
    /\ stateFile = Missing
    /\ syncFile = Missing
    /\ cacheFiles = [a \in Accounts |-> Missing]
    /\ pc = "idle"
    /\ state = EmptyMap
    /\ accountSyncState = EmptyMap
    /\ sfResp = NoAccounts
    /\ balances = EmptyMap
    /\ i = 0
    /\ totalStartDate = 0
    /\ totalEndDate = 0
    /\ currentStartDate = 0
    /\ ai = 0
    /\ ti = 0
    /\ pass = 0
    /\ lastExit = "none"
    /\ windows = <<>>
    /\ calls = [t \in TxIds |-> 0]
    /\ attemptedNow = {}
    /\ failedNow = {}
    /\ failedLast = {}
    /\ acked = {}
    /\ quietRerun = FALSE
    /\ changed = FALSE
    /\ crashInFlight = FALSE
    /\ diskAtStart = <<Missing, Missing, [a \in Accounts |-> Missing]>>
    /\ failedFetch = "none"
    /\ finished = <<>>
    /\ incomplete = {}
    /\ warnings = <<>>
    /\ callLog = <<>>
    /\ fi = 0
    /\ allAccounts = <<>>
    /\ cachedMap = EmptyMap
    /\ needsPull = FALSE
    /\ pulled = FALSE
    /\ claimCalls = 0
    /\ created = <<>>
    /\ delivered = <<>>

NextSetup ==
    \/ \E gap \in PassGaps : StartPass(gap)
    \/ \E gap \in PassGaps : StartPassClaim(gap)
    \/ \E gap \in PassGaps : StartPassClaimFails(gap)
    \/ \E gap \in PassGaps : StartPassNoAccess(gap)
    \/ FetchBalances
    \/ AccountSkip
    \/ AccountRange
    \/ FetchPage
    \/ FinishAccount
    \/ SaveSync
    \/ DispatchDone
    \/ DispatchEnter
    \/ DispatchCreate
    \/ DispatchCreateFails
    \/ TxLoopEnd
    \/ TxSkip
    \/ DeliverFail
    \/ DeliverOK
    \/ MarkProcessed

SpecSetup == InitSetup /\ [][NextSetup]_vars

\* --------------------------------------------------------------- properties

\* The ids the persisted ProcessedSet holds for the next load.
Persisted == DOMAIN LoadState(stateFile)

\* The dispatch loop has visited every account; main is about to return.
DispatchOver == pc = "dispatch" /\ ai > Len(AccountOrder)

\* The paging loop ran to its end: every page was obtained and decoded.
PagingComplete == pc = "page" /\ currentStartDate >= totalEndDate

\* C1: an id is in the ProcessedSet, in memory or on disk, only after a
\* create-transaction call for that id has returned success.
C1_ProcessedOnlyAfterSuccess ==
    /\ \A t \in DOMAIN state : ledger[t] >= 1
    /\ \A t \in Persisted : ledger[t] >= 1
    /\ pc = "mark" => Transactions[ti] \notin DOMAIN state \cup Persisted

\* C1 witness: an id was delivered, marked and saved.
C1_Witness ==
    \E t \in TxIds : t \in DOMAIN state /\ t \in Persisted /\ ledger[t] = 1

C3_QuietRerunNoCalls ==
    quietRerun => attemptedNow = {}

\* C3 witness: such a second pass is through its dispatch loop, the first
\* pass having delivered a transaction.
C3_Witness ==
    /\ quietRerun
    /\ DispatchOver
    /\ \E t \in TxIds : ledger[t] = 1

\* C4: a transaction whose delivery failed in a pass is fetched and its
\* delivery attempted again in the next pass, seen when that pass is through
\* its dispatch loop.
C4_FailedRetriedNextPass ==
    DispatchOver => failedLast \subseteq attemptedNow

\* C5: an id whose delivery failed is not added to the ProcessedSet, and the
\* loop goes on: when the dispatch loop is over every fetched transaction of
\* every mapped account is processed or had its delivery attempted, and a
\* pass with a failed delivery never ends by a fatal exit.
C5_FailureSkipsOnlyThatTx ==
    /\ failedNow \cap DOMAIN state = {}
    /\ failedNow \cap Persisted = {}
    /\ DispatchOver =>
         \A a \in Accounts : Mapped(a) =>
             \A k \in 1..Len(sfResp[a]) :
                 sfResp[a][k] \in DOMAIN state \cup attemptedNow
    /\ (pc = "idle" /\ failedNow # {}) => lastExit \in {"done", "crash"}

\* C5 witness: the first transaction of an account failed, and the next one
\* of that account and the one of a later account were delivered.
C5_Witness ==
    /\ DispatchOver
    /\ sfResp["A"] = <<1, 2>>
    /\ sfResp["B"] = <<3>>
    /\ failedNow = {1}
    /\ DOMAIN state = {2, 3}

\* C6: whenever the loop is about to go on after a successful delivery, the
\* persisted ProcessedSet is the whole in-memory set, the new id included.
C6_PersistBeforeNextDelivery ==
    (pc \in {"tx", "dispatch"} /\ attemptedNow \ failedNow # {}) =>
        /\ stateFile = SaveState(state)
        /\ attemptedNow \ failedNow \subseteq Persisted

\* C6 witness: a delivery succeeded and the call for the next transaction of
\* the account is about to be issued.
C6_Witness ==
    /\ pc = "tx"
    /\ ti = 2
    /\ ti <= Len(Transactions)
    /\ Transactions[1] \in attemptedNow \ failedNow
    /\ Transactions[2] \notin DOMAIN state

\* C7: after a crash the persisted ProcessedSet holds every id loaded at the
\* start of the pass or delivered in it, except at most one.
C7_CrashLosesAtMostInFlight ==
    (pc = "idle" /\ lastExit = "crash") =>
        Cardinality(acked \ Persisted) <= 1

\* C8: every sub-window requested spans at most maxRangeSeconds.
C8_WindowWithinCap ==
    \A k \in 1..Len(windows) :
        windows[k][2] - windows[k][1] <= maxRangeSeconds

\* C8 witness: a range longer than the cap was paged, by full windows and a
\* shorter last one.
C8_Witness ==
    /\ PagingComplete
    /\ totalEndDate - totalStartDate > maxRangeSeconds
    /\ windows[1][2] - windows[1][1] = maxRangeSeconds
    /\ windows[Len(windows)][2] - windows[Len(windows)][1] < maxRangeSeconds

\* The windows are contiguous and cover [start, end) exactly.
Partition(w, start, end) ==
    IF start >= end THEN w = <<>>
    ELSE /\ w # <<>>
         /\ w[1][1] = start
         /\ w[Len(w)][2] = end
         /\ \A k \in 1..Len(w) : w[k][1] < w[k][2]
         /\ \A k \in 2..Len(w) : w[k][1] = w[k - 1][2]

\* C9: when the paging loop of an account is over, the sub-windows requested
\* for it partition [rangeStart, rangeEnd) exactly.
C9_WindowsPartitionRange ==
    PagingOver => Partition(windows, totalStartDate, totalEndDate)

CeilDiv(n, d) == IF n <= 0 THEN 0 ELSE (n + d - 1) \div d

\* C10: a fetch of an account that obtained every page issued exactly
\* ceil(range / 90 days) page requests.
C10_PageCount ==
    PagingComplete =>
        Len(windows) = CeilDiv(totalEndDate - totalStartDate, maxRangeSeconds)

\* C10 witness: a range of 365 days was fetched by 5 page requests.
C10_Witness ==
    /\ PagingComplete
    /\ totalEndDate - totalStartDate = 365 * Day
    /\ Len(windows) = 5

\* ------------------------------------------------- properties of the cursors

\* The cursor store the pass loaded.
CursorsAtStart == LoadAccountSyncState(diskAtStart[2])

\* The cursor store the next pass will load.
CursorsOnDisk == LoadAccountSyncState(syncFile)

\* The entry of an account in a cursor store: <<entry>>, or <<>> for none.
Entry(m, a) == IF a \in DOMAIN m THEN <<m[a]>> ELSE <<>>

\* The fetch is running and has loaded the cursor store.
Fetching == pc \in {"account", "page", "broke"}

\* The pass has ended by the failure of a page request.
PageFailed == failedFetch \in Accounts

\* C11: the cursor of an account one of whose pages could not be decoded in
\* this pass is not advanced: in memory and on disk it stays as loaded.
C11_NoAdvanceOnUndecodablePage ==
    \A a \in incomplete :
        /\ Fetching =>
             Entry(accountSyncState, a) = Entry(CursorsAtStart, a)
        /\ syncFile.st = "ok" =>
             Entry(CursorsOnDisk, a) = Entry(CursorsAtStart, a)

\* C12: the persisted cursor of an account never moves backwards: it is at
\* least the cursor that was persisted when the pass started.
C12_CursorMonotone ==
    \A a \in DOMAIN CursorsAtStart \cap DOMAIN CursorsOnDisk :
        CursorsOnDisk[a].LastSyncDate >= CursorsAtStart[a].LastSyncDate

\* C13: after a pass aborted by a failed page request, the cursor store on
\* disk holds the new cursor of every account that was fully fetched before
\* in that pass, and its snapshot is cached.
C13_EarlierAccountKept ==
    (pc = "idle" /\ PageFailed) =>
        \A k \in 1..Len(finished) :
            finished[k][1] \notin incomplete =>
                /\ cacheFiles[finished[k][1]].st = "ok"
                /\ finished[k][1] \in DOMAIN CursorsOnDisk
                /\ CursorsOnDisk[finished[k][1]].LastSyncDate = finished[k][2]

\* C14: once a page request has failed the pass is over by a fatal exit: the
\* process is gone, no delivery call was made, and the cursor store on disk,
\* the ProcessedSet on disk and the snapshots of the failing account and of
\* the accounts not reached are as they were when the pass started.
C14_PageFailureAborts ==
    PageFailed =>
        /\ pc = "idle"
        /\ lastExit = "fatal"
        /\ attemptedNow = {}
        /\ stateFile = diskAtStart[1]
        /\ syncFile = diskAtStart[2]
        /\ \A a \in Accounts :
             (\A k \in 1..Len(finished) : finished[k][1] # a) =>
                 cacheFiles[a] = diskAtStart[3][a]

\* C14 witness: the page request of the last account failed after the first
\* account was fetched.
C14_Witness ==
    /\ failedFetch = "B"
    /\ Len(finished) = 1
    /\ finished[1][1] = "A"

\* The account the fetch loop completed last in this pass.
LastFinished == finished[Len(finished)][1]

\* C15: when the fetch loop has completed an account all of whose pages were
\* obtained, the cursor of the account is the end of the range computed for
\* it, which is the end of the last window requested, whatever the clock
\* reads by then.
C15_CursorIsRangeEnd ==
    (pc = "account" /\ finished # <<>> /\ LastFinished \notin incomplete) =>
        /\ accountSyncState[LastFinished].LastSyncDate = totalEndDate
        /\ windows # <<>> => windows[Len(windows)][2] = totalEndDate

\* C15 witness: an account was completed while the clock reads later than
\* the end of its range.
C15_Witness ==
    /\ pc = "account"
    /\ finished # <<>>
    /\ LastFinished \notin incomplete
    /\ windows # <<>>
    /\ clock > totalEndDate
    /\ accountSyncState[LastFinished].LastSyncDate = totalEndDate

\* C16: no page is requested for a balance-only account and no delivery call
\* is made for a transaction of one, in any pass; its balance is in the
\* result of the balances-only fetch.
C16_BalanceOnlyExcluded ==
    /\ pc \in {"page", "broke"} => ~AccountMap[CurrentAccount].BalanceOnly
    /\ \A k \in 1..Len(finished) : ~AccountMap[finished[k][1]].BalanceOnly
    /\ PageFailed => ~AccountMap[failedFetch].BalanceOnly
    /\ \A a \in incomplete : ~AccountMap[a].BalanceOnly
    /\ \A t \in TxIds : AccountMap[TxAccount(t)].BalanceOnly => calls[t] = 0
    /\ \A a \in Accounts :
         (AccountMap[a].BalanceOnly /\ (Fetching \/ pc \in {"dispatch", "tx", "mark"})) =>
             (a \in DOMAIN balances /\ balances[a] = UpstreamBalances[a])

\* C16 witness: a pass is through its dispatch loop, upstream holds a
\* transaction of the balance-only account, and a transaction of another
\* account was delivered.
C16_Witness ==
    /\ DispatchOver
    /\ \E t \in upstream : AccountMap[TxAccount(t)].BalanceOnly
    /\ \E t \in upstream : ledger[t] = 1
    /\ balances["C"] = "30.00"

\* C17: a pass leaves the cursor entry and the cached snapshot of a
\* balance-only account as they were when it started.
C17_BalanceOnlyUntouched ==
    \A a \in Accounts : AccountMap[a].BalanceOnly =>
        /\ Fetching => Entry(accountSyncState, a) = Entry(CursorsAtStart, a)
        /\ Entry(CursorsOnDisk, a) = Entry(CursorsAtStart, a)
        /\ cacheFiles[a] = diskAtStart[3][a]

\* C17 witness: a pass has completed and saved cursors and snapshots of the
\* other accounts.
C17_Witness ==
    /\ pc = "idle"
    /\ lastExit = "done"
    /\ DOMAIN CursorsOnDisk = {"A", "B"}
    /\ cacheFiles["A"].st = "ok"
    /\ cacheFiles["C"].st = "missing"

\* -------------------------------------------- properties of loads and aborts

\* C18: a pass that finds sync_state.json malformed does not go on past the
\* load and leaves the file alone; likewise for account_sync_state.json,
\* which the fetch loads first.
C18_MalformedIsFatal ==
    /\ diskAtStart[1].st = "bad" => (pc = "idle" /\ stateFile = diskAtStart[1])
    /\ diskAtStart[2].st = "bad" =>
         (pc \in {"idle", "balances"} /\ syncFile = diskAtStart[2])

\* C19: a missing file loads as the empty mapping and is no error: the pass
\* goes on as a first sync, every account's range starts one year back, and
\* a fatal exit comes from a failed fetch only.
C19_MissingIsEmpty ==
    /\ (pc = "balances" /\ diskAtStart[1].st = "missing") => state = EmptyMap
    /\ (pc = "account" /\ i = 1 /\ diskAtStart[2].st = "missing") =>
         accountSyncState = EmptyMap
    /\ (pc = "page" /\ diskAtStart[2].st = "missing") =>
         totalStartDate \in {AddYears(totalEndDate, -1),
                             AddYears(totalEndDate + 1, -1)}
    /\ (pc = "idle" /\ lastExit = "fatal") => failedFetch # "none"

\* C19 witness: a pass that found both files missing is through its
\* dispatch loop and has delivered a transaction.
C19_Witness ==
    /\ DispatchOver
    /\ diskAtStart[1].st = "missing"
    /\ diskAtStart[2].st = "missing"
    /\ \E t \in TxIds : t \in DOMAIN state

\* C20: once the balances-only call has failed the pass is over by a fatal
\* exit: no page was requested, no delivery call was made, and the three
\* stores are as they were when the pass started.
C20_BalancesFailureAborts ==
    failedFetch = "balances" =>
        /\ pc = "idle"
        /\ lastExit = "fatal"
        /\ finished = <<>>
        /\ incomplete = {}
        /\ attemptedNow = {}
        /\ <<stateFile, syncFile, cacheFiles>> = diskAtStart

\* C20 witness: the balances-only call of a pass failed after an earlier
\* pass had written the three stores.
C20_Witness ==
    /\ failedFetch = "balances"
    /\ stateFile.st = "ok"
    /\ syncFile.st = "ok"
    /\ cacheFiles["A"].st = "ok"

\* ------------------------------------------ properties of payloads and ranges

\* C23: every payload sent carries as its name the description of the
\* transaction, or its formatted date when the description is empty.
C23_FallbackNaming ==
    \A k \in 1..Len(callLog) :
        IF Description(NotesID(callLog[k].Notes)) = <<>>
        THEN callLog[k].Name = callLog[k].Date
        ELSE callLog[k].Name = Description(NotesID(callLog[k].Notes))

\* The range of the current account has been computed.
RangeComputed == pc \in {"page", "broke"}

YearBefore(date) ==
    IF date[2] = 2 /\ date[3] = 29
    THEN <<date[1] - 1, 3, 1>>
    ELSE <<date[1] - 1, date[2], date[3]>>

C26_StoresOnlyGrow ==
    [][/\ Persisted \subseteq Persisted'
       /\ DOMAIN CursorsOnDisk \subseteq DOMAIN CursorsOnDisk']_vars

\* The window requested last.
LastWindow == windows[Len(windows)]

\* C29: a page that holds no transaction leaves the accumulator of the
\* account as it was, and the next page starts where that page ended.
C29_EmptyPageIsValid ==
    [][(/\ pc = "page"
        /\ pc' = "page"
        /\ Len(windows') = Len(windows) + 1
        /\ UpstreamPage(CurrentAccount, LastWindow'[1], LastWindow'[2]) = <<>>)
       => (/\ sfResp' = sfResp
           /\ currentStartDate' = LastWindow'[2])]_vars

\* C29 witness: after a page with transactions an empty page was read, and
\* the paging goes on.
C29_Witness ==
    /\ pc = "page"
    /\ Len(windows) >= 2
    /\ UpstreamPage(CurrentAccount, LastWindow[1], LastWindow[2]) = <<>>
    /\ sfResp[CurrentAccount] # <<>>
    /\ currentStartDate = LastWindow[2]
    /\ currentStartDate < totalEndDate

\* --------------------------------------- properties of runs over the inputs

\* The dispatch loop is running.
Dispatching == pc \in {"dispatch", "tx", "mark"}

\* The ids of a sequence of transactions.
Ids(txs) == {txs[k] : k \in 1..Len(txs)}

\* C21: a response that carries errors is no failure.  The errors are
\* printed, once for each response; no pass ends by a fatal exit and no
\* paging loop is broken; and the data is taken as it is: the balances are
\* upstream's and, when the paging of an account is over, its accumulator
\* holds each upstream transaction of the range once.
C21_ErrorsAreWarnings ==
    /\ lastExit # "fatal"
    /\ failedFetch = "none"
    /\ incomplete = {}
    /\ (pc = "account" /\ i = 1) => warnings = upstreamErrors
    /\ (Fetching \/ Dispatching) =>
         /\ balances = UpstreamBalances
         /\ upstreamErrors = <<>> => warnings = <<>>
         /\ Len(warnings) >= Len(upstreamErrors)
         /\ Ids(warnings) = Ids(upstreamErrors)
    /\ PagingComplete =>
         /\ Ids(sfResp[CurrentAccount]) =
              {t \in upstream : /\ TxAccount(t) = CurrentAccount
                                /\ totalStartDate <= TransactedAt(t)
                                /\ TransactedAt(t) < totalEndDate}
         /\ Len(sfResp[CurrentAccount]) =
              Cardinality(Ids(sfResp[CurrentAccount]))

\* C21 happens: a pass whose responses carried errors has printed them for
\* the balances and for the pages, has fetched transactions and delivered
\* them, and its dispatch is over.
C21_Witness ==
    /\ DispatchOver
    /\ upstreamErrors # <<>>
    /\ Len(warnings) > Len(upstreamErrors)
    /\ callLog # <<>>
    /\ \E a \in Accounts : sfResp[a] # <<>>

\* C22: an account that is not in the account map is skipped.  No delivery
\* call is made for a transaction of it; the accounts after it are taken:
\* when the dispatch is over each transaction fetched for a mapped account
\* that takes transactions is processed; and every pass ends normally.
C22_UnmappedAccountSkipped ==
    /\ \A k \in 1..Len(callLog) :
           TxAccount(NotesID(callLog[k].Notes)) \in DOMAIN accountMap
    /\ \A t \in TxIds :
           TxAccount(t) \notin DOMAIN accountMap => calls[t] = 0
    /\ DispatchOver =>
           \A a \in DOMAIN accountMap :
               ~accountMap[a].BalanceOnly => Ids(sfResp[a]) \subseteq DOMAIN state
    /\ (pc = "idle" /\ pass >= 1) => lastExit = "done"

\* C22 happens: the first account of the response is not mapped and has
\* transactions, and a later account's transaction was delivered in the
\* same pass.
C22_Witness ==
    /\ DispatchOver
    /\ "A" \notin DOMAIN accountMap
    /\ sfResp["A"] # <<>>
    /\ sfResp["B"] # <<>>
    /\ callLog # <<>>
    /\ Ids(sfResp["B"]) \subseteq DOMAIN state

\* Pairs of days as pairs of seconds.
InSeconds(days) == [k \in 1..Len(days) |-> <<days[k][1] * Day, days[k][2] * Day>>]

\* The first pass is at day 460 and the clock stands still.
FixedAtDay460 == pass = 1 /\ clock = 460 * Day /\ totalEndDate = 460 * Day

\* C25 as stated: with no cursor and the time fixed at day 460 the windows
\* are [100,190), [190,280), [280,370), [370,460) and the cursor is 460.
C25_FourWindowsFromDay100 ==
    FixedAtDay460 =>
        /\ PagingComplete =>
             windows = InSeconds(<<<<100, 190>>, <<190, 280>>, <<280, 370>>,
                                   <<370, 460>>>>)
        /\ (pc = "account" /\ finished # <<>>) =>
             accountSyncState[LastFinished].LastSyncDate = 460 * Day

\* C25: with no cursor and the time fixed at day 460 the range starts one
\* calendar year back, at day 95, and the windows are [95,185), [185,275),
\* [275,365), [365,455), [455,460); the cursor is 460.
C25_FiveWindowsFromDay95 ==
    FixedAtDay460 =>
        /\ RangeComputed => totalStartDate = 95 * Day
        /\ PagingComplete =>
             windows = InSeconds(<<<<95, 185>>, <<185, 275>>, <<275, 365>>,
                                   <<365, 455>>, <<455, 460>>>>)
        /\ (pc = "account" /\ finished # <<>>) =>
             accountSyncState[LastFinished].LastSyncDate = 460 * Day

\* C25 happens: the paging of an account that had no cursor is over at
\* day 460, after five windows.
C25_Witness ==
    /\ FixedAtDay460
    /\ PagingComplete
    /\ Len(windows) = 5
    /\ ~HasCursor(CurrentAccount, LoadAccountSyncState(diskAtStart[2]))

\* The pages of a sequence of windows, one after the other.
RECURSIVE PagesOf(_, _)
PagesOf(a, ws) ==
    IF ws = <<>>
    THEN <<>>
    ELSE PagesOf(a, SubSeq(ws, 1, Len(ws) - 1))
             \o UpstreamPage(a, ws[Len(ws)][1], ws[Len(ws)][2])

\* The delivery calls of this pass for the transactions of an account.
CallsFor(a) ==
    LET mine == SelectSeq(callLog, LAMBDA c : TxAccount(NotesID(c.Notes)) = a)
    IN  [k \in 1..Len(mine) |-> NotesID(mine[k].Notes)]

\* C27: the delivery calls of an account follow the order of the API: the
\* accumulator is the pages in ascending order of their windows, each page
\* as the response lists it, and the calls are made down the accumulator,
\* leaving out what was processed before.
C27_ResponseOrder ==
    /\ pc = "page" => sfResp[CurrentAccount] = PagesOf(CurrentAccount, windows)
    /\ DispatchOver =>
         \A a \in Accounts :
             CallsFor(a) =
                 SelectSeq(sfResp[a], LAMBDA t : /\ t \in attemptedNow
                                                  /\ Mapped(a)
                                                  /\ ~BalanceOnly(a))

\* C27 happens: two transactions were delivered in the order of the
\* response, the later one of the two first.
C27_Witness ==
    /\ DispatchOver
    /\ Len(CallsFor("A")) = 2
    /\ TransactedAt(CallsFor("A")[1]) > TransactedAt(CallsFor("A")[2])

\* C28 as stated: a forced refresh ignores the stored cursors, each account
\* is fetched again over the default range of a year, and no cache file is
\* erased.
C28_ForceRefreshIgnoresCursors ==
    /\ (forceRefresh /\ RangeComputed) =>
           clock - totalStartDate \in {365 * Day, 366 * Day}
    /\ forceRefresh =>
           \A a \in Accounts :
               diskAtStart[3][a].st = "ok" => cacheFiles[a].st = "ok"

\* ------------------------------------------ properties of the cached fetch

\* A call of the cached fetch has returned.
Returned == pc = "idle" /\ pass >= 1 /\ lastExit = "done"

\* The accounts that have a snapshot in a cache.
Snapshots(files) == {a \in Accounts : files[a].st = "ok"}

\* The snapshots of a cache that are 24 hours old or older.
Expired(files, now) ==
    {a \in Snapshots(files) : now - files[a].data.fetched_at >= CacheTTL}

\* C30 as stated: the cached fetch calls upstream whenever a refresh is
\* forced, or no account is cached, or a cached snapshot is expired, and it
\* returns cached data without a call only when each cached snapshot is
\* fresh.
C30_PullsUnlessAllFresh ==
    Returned =>
        (pulled <=> \/ forceRefresh
                    \/ Snapshots(diskAtStart[3]) = {}
                    \/ Expired(diskAtStart[3], clock) # {})

\* ------------------------------------------------ properties of the snapshots

\* C31: an account whose fetch succeeded has a snapshot, written in this
\* pass over what was there, that holds the account with its balance and
\* each transaction accumulated over its sub-windows, page after page.
C31_SnapshotHoldsAccount ==
    /\ pc # "idle" =>
         \A k \in 1..Len(finished) :
             LET a == finished[k][1]
             IN  a \notin incomplete =>
                   /\ cacheFiles[a].st = "ok"
                   /\ cacheFiles[a].data.account =
                        [ID |-> a, Balance |-> UpstreamBalances[a],
                         Transactions |-> sfResp[a]]
    /\ (pc = "account" /\ finished # <<>> /\ LastFinished \notin incomplete) =>
         /\ sfResp[LastFinished] = PagesOf(LastFinished, windows)
         /\ cacheFiles[LastFinished].data.fetched_at = clock

\* C31 happens: an account fetched over two windows or more, with
\* transactions, has its snapshot of an earlier pass overwritten.
C31_Witness ==
    /\ pc = "account"
    /\ finished # <<>>
    /\ LastFinished \notin incomplete
    /\ Len(windows) >= 2
    /\ sfResp[LastFinished] # <<>>
    /\ diskAtStart[3][LastFinished].st = "ok"
    /\ cacheFiles[LastFinished] # diskAtStart[3][LastFinished]

\* ------------------------------- properties of bootstrap and account creation

\* C32: the claim exchange is made only by a pass that finds no access URL
\* in config.json and a setup token; a pass that fetches has the access URL
\* in config.json, where it stays, so that no later pass makes an exchange;
\* and a pass that finds neither ends by a fatal exit with nothing fetched.
C32_ClaimOnlyToBootstrap ==
    [][/\ claimCalls' # claimCalls =>
            /\ configFile.AccessURL = ""
            /\ configFile.SetupToken # ""
            /\ claimCalls' = claimCalls + 1
       /\ pc' # "idle" => configFile'.AccessURL # ""
       /\ configFile.AccessURL # "" =>
            /\ configFile'.AccessURL = configFile.AccessURL
            /\ claimCalls' = claimCalls
       /\ (pass' # pass /\ configFile.AccessURL = ""
             /\ configFile.SetupToken = "") =>
            /\ pc' = "idle"
            /\ lastExit' = "fatal"
            /\ balances' = EmptyMap
            /\ sfResp' = NoAccounts
            /\ claimCalls' = claimCalls]_vars

\* C32 happens: the first pass exchanged the setup token, and a second pass
\* is fetching with the token still in config.json and no second exchange.
C32_Witness ==
    /\ pass = 2
    /\ pc = "balances"
    /\ claimCalls = 1
    /\ configFile.SetupToken # ""
    /\ configFile.AccessURL = ClaimedURL

\* C33: each payload sent carries the ledger account id that the mapping
\* gives for the source account of the transaction, the amount string of the
\* source, and notes that name the id of the transaction: the ids named are
\* the ids whose delivery was invoked, one payload for each invocation.
C33_PayloadFields ==
    /\ {NotesID(callLog[k].Notes) : k \in 1..Len(callLog)} = attemptedNow
    /\ \A k \in 1..Len(callLog) :
         LET t == NotesID(callLog[k].Notes)
         IN  /\ callLog[k].Notes = <<"Imported via SimpleFIN. ID: ", t>>
             /\ callLog[k].Amount = Amount(t)
             /\ TxAccount(t) \in DOMAIN accountMap
             /\ callLog[k].AccountID = accountMap[TxAccount(t)].SureID

\* C33 happens: payloads were sent for a mapped account and for an account
\* created in this pass, with amounts of either sign.
C33_Witness ==
    /\ pc = "dispatch"
    /\ ai > Len(AccountOrder)
    /\ \E k \in 1..Len(callLog) : callLog[k].AccountID = CreatedID("A")
    /\ \E k \in 1..Len(callLog) : callLog[k].AccountID = AccountMap["B"].SureID
    /\ \E j, k \in 1..Len(callLog) : callLog[j].Amount # callLog[k].Amount

\* The place of an account in the response.
Place(a) == CHOOSE k \in 1..Len(AccountOrder) : AccountOrder[k] = a

\* C34: from the creation of an account on, so before its first delivery,
\* config.json holds the new mapping, and each delivery for the account is
\* sent to the new ledger id; a creation that fails ends the pass by a fatal
\* exit, with no mapping written and no delivery for that account or for an
\* account after it.
C34_MappingSavedBeforeDelivery ==
    /\ created # <<>> => autoCreate
    /\ \A k \in 1..Len(created) :
         LET a == created[k][1]
         IN  IF created[k][2] = "created"
             THEN /\ a \in DOMAIN configFile.AccountMap
                  /\ configFile.AccountMap[a].SureID = CreatedID(a)
                  /\ \A j \in 1..Len(callLog) :
                       TxAccount(NotesID(callLog[j].Notes)) = a =>
                           callLog[j].AccountID = CreatedID(a)
             ELSE /\ k = Len(created)
                  /\ pc = "idle"
                  /\ lastExit = "fatal"
                  /\ a \notin DOMAIN configFile.AccountMap
                  /\ \A j \in 1..Len(callLog) :
                       Place(TxAccount(NotesID(callLog[j].Notes))) < Place(a)

\* C34 happens: an account was created in this pass and its transactions
\* were delivered to the new ledger id.
C34_Witness ==
    /\ pc = "dispatch"
    /\ ai > Len(AccountOrder)
    /\ created = << <<"A", "created">> >>
    /\ \E j \in 1..Len(callLog) :
         /\ TxAccount(NotesID(callLog[j].Notes)) = "A"
         /\ callLog[j].AccountID = CreatedID("A")

\* ------------------------------------------------ properties of the phases

\* The fetch phase of a pass is running.
FetchPhase == pc \in {"balances", "account", "page", "broke"}

\* C35: no delivery call is made while a pass fetches, and when a call is
\* made the fetch is over: the balances are there, the loop over the
\* accounts has ended with each account that takes transactions finished,
\* and the cursor store is saved.
C35_FetchBeforeDispatch ==
    [][/\ FetchPhase' => callLog' = <<>>
       /\ Len(callLog') > Len(callLog) =>
            /\ pc = "tx"
            /\ i > Len(AccountOrder)
            /\ balances = UpstreamBalances
            /\ \A a \in Accounts :
                 ~BalanceOnly(a) =>
                     \E k \in 1..Len(finished) : finished[k][1] = a
            /\ syncFile = SaveAccountSyncState(accountSyncState)]_vars

\* C35 happens: the first delivery call of a pass has been made, after two
\* accounts were fetched and the cursors saved.
C35_Witness ==
    /\ pc = "mark"
    /\ Len(callLog) = 1
    /\ Len(finished) = 2
    /\ syncFile.st = "ok"
    /\ \E a \in Accounts : Len(sfResp[a]) >= 2

\* The dispatch loop of the running pass has yet to take the transaction.
Pending(t) ==
    /\ Dispatching
    /\ ai <= Len(AccountOrder)
    /\ \/ /\ Place(TxAccount(t)) > ai
          /\ \E k \in 1..Len(sfResp[TxAccount(t)]) : sfResp[TxAccount(t)][k] = t
       \/ /\ Place(TxAccount(t)) = ai
          /\ \E k \in 1..Len(sfResp[TxAccount(t)]) :
                 /\ sfResp[TxAccount(t)][k] = t
                 /\ pc = "dispatch" \/ k >= ti

\* C36 as stated, for the transactions that a pass has tried to deliver: an
\* upstream transaction of a mapped account that takes transactions, which
\* occurred before the persisted cursor of the account, is in the persisted
\* ProcessedSet or still to be taken by the dispatch loop of the running
\* pass.
C36_NothingSkipped ==
    \A t \in upstream :
        LET a == TxAccount(t)
        IN  (/\ calls[t] > 0
             /\ Mapped(a)
             /\ ~BalanceOnly(a)
             /\ a \in DOMAIN CursorsOnDisk
             /\ TransactedAt(t) < CursorsOnDisk[a].LastSyncDate)
            => (t \in Persisted \/ Pending(t))

\* The times an id occurs in a sequence of ids.
Occurrences(t, ids) == Cardinality({k \in 1..Len(ids) : ids[k] = t})

\* C37: an id that occurs more than once in the fetched data of a pass is
\* delivered successfully at most once in the pass, and after its
\* successful delivery no further call is made for it in the pass.
C37_DuplicateDeliveredOnce ==
    [][\A t \in TxIds :
         /\ Occurrences(t, delivered') <= 1
         /\ (Occurrences(t, delivered) = 1 /\ Len(callLog') > Len(callLog)) =>
              NotesID(callLog'[Len(callLog')].Notes) # t]_vars

\* C37 happens: two adjacent windows both returned the transaction at their
\* common instant, it was delivered once, and the dispatch is over.
C37_Witness ==
    /\ pc = "dispatch"
    /\ ai > Len(AccountOrder)
    /\ inclusiveEnd
    /\ \E a \in Accounts, t \in TxIds :
         /\ Occurrences(t, sfResp[a]) = 2
         /\ Occurrences(t, delivered) = 1

\* ------------------------------------------- properties of the paging loop

\* C38: the paging loop ends.  A page is requested only while the start of
\* the sub-window is before the end of the range, each page that is taken
\* moves the start forward and not past the end of the range, so that the
\* loop is over when the start equals the end; and with a range whose start
\* is not before its end no page is requested.
C38_PagingTerminates ==
    [][/\ (pc = "page" /\ Len(windows') > Len(windows)) =>
            currentStartDate < totalEndDate
       /\ (pc = "page" /\ pc' = "page" /\ Len(windows') > Len(windows)) =>
            /\ currentStartDate' > currentStartDate
            /\ currentStartDate' <= totalEndDate
            /\ totalEndDate' = totalEndDate
       /\ (pc' = "page" /\ totalStartDate' < totalEndDate') =>
            /\ currentStartDate' <= totalEndDate'
            /\ Len(windows') <= CeilDiv(totalEndDate' - totalStartDate',
                                        maxRangeSeconds)
       /\ (pc' \in {"page", "broke"} /\ totalStartDate' >= totalEndDate') =>
            windows' = <<>>]_vars

\* C38 happens: an account whose stored cursor is after the current time is
\* finished with no page requested, in a pass after one that paged.
C38_Witness ==
    /\ pc = "account"
    /\ finished # <<>>
    /\ totalStartDate > totalEndDate
    /\ windows = <<>>
    /\ pass >= 2

\* ------------------------------------------- properties of the two stores

====
